---- MODULE Spec2Model ----
(***************************************************************************)
(* A model of Promyse (src/src/index.js, src/src/state.js and the         *)
(* Observers collection of src/unnamed/part_002): the settlement state    *)
(* machine, chaining through then, the resolution and rejection           *)
(* procedures, and the setTimeout queue that defers every observer.       *)
(*                                                                         *)
(* JavaScript is single threaded: one step of the model is one turn, that *)
(* is one call made by the test driver (deferred, resolveFn, rejectFn,    *)
(* then, new Promyse) or one callback run by the timer queue, each run to *)
(* completion.  The procedures are operators over a machine record m      *)
(* holding the whole heap; m.exc is the exception in flight, if any.      *)
(***************************************************************************)
EXTENDS Integers, Sequences, FiniteSets, TLC

VARIABLES
    instancesStatesMap,   \* cell -> State record          (index.js:7)
    instancesObservers,   \* cell -> Observers collection  (index.js:10)
    timers,               \* the setTimeout(.., 0, ..) queue, run in FIFO order
    alreadyCalled,        \* one flag per then.call of a thenable (index.js:660)
    arrays,               \* the array each call of all, any, allSettled builds, by the
                          \* cell the call returned (index.js:440, 493, 546)
    handlerLog,           \* history: every invocation of a handler given to then
    thenCalls,            \* history: every call of then, in call order
    callbackLog,          \* history of the thenables: every call of a resolvePromise or
                          \* rejectPromise, every throw of a then getter or a then.call
    driver,               \* the cells and the resolveFn/rejectFn pairs the driver holds,
                          \* and the history of its calls
    uncaught              \* the exception the last turn raised to its caller, or NoExc

vars == <<instancesStatesMap, instancesObservers, timers, alreadyCalled, arrays,
          handlerLog, thenCalls, callbackLog, driver, uncaught>>

-----------------------------------------------------------------------------
(* Bounds of the model. *)

\* Cells the driver may create (deferred, new Promyse, then, adoption by resolveFn).
MaxCells == 3
\* Deferred cells given to all, any and allSettled.
MaxInputs == 2
\* Length of the chain of cells resolved with one another.
MaxDepth == 3
\* then.calls of thenables in one run.
MaxThenCalls == 2
\* Calls of the static methods in one run.
MaxCalls == 2

-----------------------------------------------------------------------------
(* JavaScript values.  Every value is a record [t, v]. *)

Undefined == [t |-> "undefined", v |-> 0]
NoExc == [t |-> "noexception", v |-> 0]
Plain(n) == [t |-> "plain", v |-> n]
PromyseRef(c) == [t |-> "Promyse", v |-> c]
Thenable(k) == [t |-> "thenable", v |-> k]
\* an array, known by the cell of the aggregate call that made it
ArrayRef(c) == [t |-> "array", v |-> c]
\* an iterable holding the elements of the sequence els
Iterable(els) == [t |-> "iterable", v |-> els]
\* TypeError(`Cannot read property 'Symbol(Symbol.iterator)' of ...`)
NotIterableTypeError == [t |-> "TypeError", v |-> 2]
\* TypeError('Cannot solve a Promyse with itself')
SelfTypeError == [t |-> "TypeError", v |-> 0]

\* ReferenceError: value is not defined
ReferenceError == [t |-> "ReferenceError", v |-> 0]
\* what a function called with no argument is given
NoArgument == [t |-> "noargument", v |-> 0]

\* TypeError: Cannot read property 'hasNext' (or 'add') of undefined
UndefinedTypeError == [t |-> "TypeError", v |-> 1]

PENDING == "PENDING"
FULFILLED == "FULFILLED"
REJECTED == "REJECTED"
STATES == {PENDING, FULFILLED, REJECTED}

\* new State(state, value, settled); the defaults are PENDING, undefined, false
State(state, value, settled) == [state |-> state, value |-> value, settled |-> settled]
DefaultState == State(PENDING, Undefined, FALSE)

-----------------------------------------------------------------------------
(* Handlers given to then, as data.  h is what the function does when it  *)
(* is called with one argument x, a is the value it closes over.          *)

NotFunction == [h |-> "notFunction", a |-> Undefined]
\* null, given where a handler is expected
Null == [h |-> "null", a |-> Undefined]
\* typeof h === 'function'
isFunction(h) == h.h \notin {"notFunction", "null"}
\* x => x, the default onfulfill
IdentityFn == [h |-> "identity", a |-> Undefined]
\* x => { throw x }, the default onreject
ThrowerFn == [h |-> "thrower", a |-> Undefined]
\* a caller's handler returning the value a
Return(a) == [h |-> "return", a |-> a]
\* a caller's handler throwing a
Throw(a) == [h |-> "throw", a |-> a]
\* a caller's handler returning the cell its own then call returned: p = q.then(() => p)
ReturnSelf == [h |-> "returnSelf", a |-> Undefined]
\* value => { resolve.call(this, value) } of the Promyse adoption, this = c
AdoptResolve(c) == [h |-> "adoptResolve", a |-> PromyseRef(c)]
\* reason => { reject.call(this, reason) } of the Promyse adoption, this = c
AdoptReject(c) == [h |-> "adoptReject", a |-> PromyseRef(c)]
\* the handlers of all, any and allSettled; agg is the cell the call returns, idx the
\* place of the input (from 1) and n iterableOfPromysesLength
Closure(agg, idx, n) == [t |-> "closure", v |-> agg, idx |-> idx, n |-> n]
\* value => { arrayOfResults[idx] = value; if (...) resolve(arrayOfResults) }
AllCollect(agg, idx, n) == [h |-> "allCollect", a |-> Closure(agg, idx, n)]
\* reason => { arrayOfRejections[idx] = reason; if (...) reject(arrayOfRejections) }
AnyCollect(agg, idx, n) == [h |-> "anyCollect", a |-> Closure(agg, idx, n)]
\* value => settleIntoArray(value, idx), reason => settleIntoArray(reason, idx)
SettleIntoArray(agg, idx, n) == [h |-> "settleIntoArray", a |-> Closure(agg, idx, n)]
\* value => resolve(value)
AggResolve(agg) == [h |-> "aggResolve", a |-> PromyseRef(agg)]
\* reason => reject(reason)
AggReject(agg) == [h |-> "aggReject", a |-> PromyseRef(agg)]

\* the two handlers finally gives to then: value => { ... } and reason => { ... },
\* closing over onfinally
FinallyOnFulfill(onfinally) == [h |-> "finallyValue", a |-> onfinally]
FinallyOnReject(onfinally) == [h |-> "finallyReason", a |-> onfinally]

-----------------------------------------------------------------------------
(* The machine record. *)

Machine == [st |-> instancesStatesMap, ob |-> instancesObservers, tm |-> timers,
            ac |-> alreadyCalled, ar |-> arrays, log |-> handlerLog, tc |-> thenCalls,
            cl |-> callbackLog, scope |-> << >>, exc |-> NoExc]

Cells(m) == DOMAIN m.st
NewId(m) == Cardinality(DOMAIN m.st) + 1
Raise(m, e) == [m EXCEPT !.exc = e]
Caught(m) == [m EXCEPT !.exc = NoExc]
Extend(f, k, x) == [y \in DOMAIN f \cup {k} |-> IF y = k THEN x ELSE f[y]]
Remove(f, k) == [y \in DOMAIN f \ {k} |-> f[y]]

-----------------------------------------------------------------------------
(* Observers (observers.js). *)

Observers_new == << >>
Observers_add(observers, entry) == Append(observers, entry)
\* mutant: get() pops the last entry instead of shifting the first
Observers_get_pop(observers) ==
    [entry |-> observers[Len(observers)], rest |-> SubSeq(observers, 1, Len(observers) - 1)]

\* get() shifts the first entry off the array and returns it
Observers_get(observers) == [entry |-> Head(observers), rest |-> Tail(observers)]
Observers_hasNext(observers) == Len(observers)

-----------------------------------------------------------------------------
(* JavaScript arrays with holes: functions from the indexes that were      *)
(* assigned, counted from 1.                                               *)

Array_new == << >>
\* array[idx] = value
Array_set(array, idx, value) == Extend(array, idx, value)
\* length: one more than the highest index assigned (counting from 0)
Array_length(array) ==
    IF DOMAIN array = {} THEN 0
    ELSE CHOOSE k \in DOMAIN array : \A j \in DOMAIN array : j <= k
\* array.map(el => el): the callback is not called on a hole and the hole is kept
Array_map(array) == [i \in DOMAIN array |-> array[i]]

-----------------------------------------------------------------------------
(* Thenables ("adaptable handles"), as data.  A thenable is an object with *)
(* a then property: reading it may throw (getThrows), it may not be a      *)
(* function (isFn = FALSE), and when called it runs the script sync        *)
(* inside then.call and has the calls of later made from timers of its     *)
(* own.  One op of a script calls resolvePromise or rejectPromise, or      *)
(* throws; lvl = 0 names the callbacks this then.call was given, lvl = 1   *)
(* those of the enclosing then.call (a thenable handed out by another     *)
(* thenable's then closes over that one's callbacks); guarded says the     *)
(* thenable wraps the call in try/catch.                                   *)

\* the cell the thenable is being resolved into (the thenable closes over it)
ThisCell == [t |-> "thisCell", v |-> 0]

Op(op, arg) == [op |-> op, arg |-> arg, lvl |-> 0, guarded |-> FALSE]
OpGuarded(op, arg) == [op |-> op, arg |-> arg, lvl |-> 0, guarded |-> TRUE]
OpOuter(op, arg) == [op |-> op, arg |-> arg, lvl |-> 1, guarded |-> FALSE]
ThenFn(sync, later) == [getThrows |-> NoExc, isFn |-> TRUE, sync |-> sync, later |-> later]

Thenables == <<
    \* 1: then calls both callbacks, resolvePromise first
    ThenFn(<<Op("resolvePromise", Plain(1)), Op("rejectPromise", Plain(2))>>, << >>),
    \* 2: then calls both callbacks, rejectPromise first
    ThenFn(<<Op("rejectPromise", Plain(2)), Op("resolvePromise", Plain(1))>>, << >>),
    \* 3: then calls resolvePromise twice
    ThenFn(<<Op("resolvePromise", Plain(1)), Op("resolvePromise", Plain(2))>>, << >>),
    \* 4: then keeps the callbacks and calls both in later turns
    ThenFn(<< >>, <<Op("resolvePromise", Plain(1)), Op("rejectPromise", Plain(2))>>),
    \* 5: then calls resolvePromise and then throws
    ThenFn(<<Op("resolvePromise", Plain(1)), Op("throw", Plain(3))>>, << >>),
    \* 6: then throws before calling anything
    ThenFn(<<Op("throw", Plain(3))>>, << >>),
    \* 7: { get then() { throw 3 } }
    [getThrows |-> Plain(3), isFn |-> FALSE, sync |-> << >>, later |-> << >>],
    \* 8: { then: 4 }
    [getThrows |-> NoExc, isFn |-> FALSE, sync |-> << >>, later |-> << >>],
    \* 9: then(res, rej) { try { res(cell) } catch (e) {} rej(2) }
    ThenFn(<<OpGuarded("resolvePromise", ThisCell), Op("rejectPromise", Plain(2))>>, << >>),
    \* 10: then(res, rej) { try { res(cell) } catch (e) {} throw 3 }
    ThenFn(<<OpGuarded("resolvePromise", ThisCell), Op("throw", Plain(3))>>, << >>),
    \* 11: then(res, rej) { res({ then() { rej(2) } }) }: the inner then is thenable 12
    ThenFn(<<Op("resolvePromise", Thenable(12))>>, << >>),
    \* 12: the thenable handed out by 11; its then calls the rejectPromise of 11
    ThenFn(<<OpOuter("rejectPromise", Plain(2))>>, << >>),
    \* 13: then calls rejectPromise now and resolvePromise in a later turn
    ThenFn(<<Op("rejectPromise", Plain(2))>>, <<Op("resolvePromise", Plain(1))>>)
>>

\* obj === Object(obj) && "then" in obj; a Promyse is tested before this is
isThenable(obj) == obj.t = "thenable" \/ obj.t = "Promyse"

-----------------------------------------------------------------------------
(* reject and the drain of the Observers collection (index.js:705-751). *)

\* while (observers.hasNext) { const { onfulfill } = observers.get();
\*                             setTimeout(onfulfill, 0, value) }
\* mutant: the drain schedules the first entry and loses the others
drain_firstOnly(m, this, which) ==
    IF Observers_hasNext(m.ob[this]) = 0 THEN m
    ELSE LET got == Observers_get(m.ob[this])
             timer == [which |-> which, cell |-> got.entry.cell, h |-> got.entry[which],
                       arg |-> m.st[this].value, recv |-> this]
         IN [m EXCEPT !.ob[this] = got.rest, !.tm = Append(@, timer)]

\* mutant: the drain schedules both callbacks of every entry
RECURSIVE drain_both(_, _, _)
drain_both(m, this, which) ==
    IF Observers_hasNext(m.ob[this]) = 0 THEN m
    ELSE LET got == Observers_get(m.ob[this])
             timer(w) == [which |-> w, cell |-> got.entry.cell, h |-> got.entry[w],
                          arg |-> m.st[this].value, recv |-> this]
         IN drain_both([m EXCEPT !.ob[this] = got.rest,
                                 !.tm = @ \o <<timer("onfulfill"), timer("onreject")>>],
                       this, which)

RECURSIVE drain(_, _, _)
drain(m, this, which) ==
    IF Observers_hasNext(m.ob[this]) = 0 THEN m
    ELSE LET got == Observers_get(m.ob[this])
             timer == [which |-> which, cell |-> got.entry.cell, h |-> got.entry[which],
                       arg |-> m.st[this].value, recv |-> this]
         IN drain([m EXCEPT !.ob[this] = got.rest, !.tm = Append(@, timer)], this, which)

\* mutant: the settling step leaves the observers collection as it is
notify_keepsObservers(m, this, which) == m

\* the drain, then instancesObservers.delete(this)
notify(m, this, which) == [drain(m, this, which) EXCEPT !.ob = Remove(@, this)]

\* mutant: reject takes the payload of a settled cell given as reason
reject_unwraps(m, this, reason) ==
    IF ~m.st[this].settled
    THEN notify([m EXCEPT !.st[this] =
                     State(REJECTED,
                           IF reason.t = "Promyse" /\ m.st[reason.v].settled
                           THEN m.st[reason.v].value ELSE reason,
                           TRUE)],
                this, "onreject")
    ELSE m

\* mutant: reject does nothing for a cell that was resolved with another cell
reject_lockedIn(m, this, reason) ==
    IF ~m.st[this].settled
          /\ \A i \in DOMAIN m.tc : m.tc[i].onfulfill # [h |-> "adoptResolve", a |-> PromyseRef(this)]
    THEN notify([m EXCEPT !.st[this] = State(REJECTED, reason, TRUE)], this, "onreject")
    ELSE m

\* mutant: reject without the settled check
reject_unguarded(m, this, reason) ==
    IF this \in DOMAIN m.ob
    THEN notify([m EXCEPT !.st[this] = State(REJECTED, reason, TRUE)], this, "onreject")
    ELSE [m EXCEPT !.st[this] = State(REJECTED, reason, TRUE)]

reject(m, this, reason) ==
    IF ~m.st[this].settled
    THEN notify([m EXCEPT !.st[this] = State(REJECTED, reason, TRUE)], this, "onreject")
    ELSE m

\* mutant: the fulfilled State is made without its settled flag
fulfill_flagUnset(m, this, value) ==
    notify([m EXCEPT !.st[this] = State(FULFILLED, value, FALSE)], this, "onfulfill")

\* instancesStatesMap.set(this, new State(STATES.FULFILLED, value, true)) and the drain
fulfill(m, this, value) ==
    notify([m EXCEPT !.st[this] = State(FULFILLED, value, TRUE)], this, "onfulfill")

-----------------------------------------------------------------------------
(* The constructor's first half (index.js:28-32) and then (index.js:45-145). *)

RECURSIVE resolve(_, _, _), runObserver(_, _)

allocate(m) ==
    [m EXCEPT !.st = Extend(@, NewId(m), DefaultState),
              !.ob = Extend(@, NewId(m), Observers_new)]

\* mutant: on a settled receiver then runs the handler at once, with no setTimeout
Promyse_then_eager(m, this, onfulfill, onreject) ==
    LET onF == IF ~isFunction(onfulfill) THEN IdentityFn ELSE onfulfill
        onR == IF ~isFunction(onreject) THEN ThrowerFn ELSE onreject
        tuple == m.st[this]
        new == NewId(m)
        m1 == [allocate(m) EXCEPT !.tc = Append(@, [recv |-> this, cell |-> new,
                                                    settled |-> tuple.settled,
                                                    f |-> onfulfill, g |-> onreject,
                                                    onfulfill |-> onF, onreject |-> onR])]
    IN IF tuple.settled
       THEN runObserver(m1, [which |-> IF tuple.state = FULFILLED THEN "onfulfill"
                                       ELSE "onreject",
                             cell |-> new,
                             h |-> IF tuple.state = FULFILLED THEN onF ELSE onR,
                             arg |-> tuple.value, recv |-> this])
       ELSE [m1 EXCEPT !.ob[this] = Observers_add(@, [cell |-> new, onfulfill |-> onF,
                                                      onreject |-> onR])]

\* mutant: the default onreject is x => x
Promyse_then_defaultIdentity(m, this, onfulfill, onreject) ==
    LET onF == IF ~isFunction(onfulfill) THEN IdentityFn ELSE onfulfill
        onR == IF ~isFunction(onreject) THEN IdentityFn ELSE onreject
        tuple == m.st[this]
        new == NewId(m)
        m1 == [allocate(m) EXCEPT !.tc = Append(@, [recv |-> this, cell |-> new,
                                                    settled |-> tuple.settled,
                                                    f |-> onfulfill, g |-> onreject,
                                                    onfulfill |-> onF, onreject |-> onR])]
    IN IF tuple.settled
       THEN IF tuple.state = FULFILLED
            THEN [m1 EXCEPT !.tm = Append(@, [which |-> "onfulfill", cell |-> new, h |-> onF,
                                              arg |-> tuple.value, recv |-> this])]
            ELSE [m1 EXCEPT !.tm = Append(@, [which |-> "onreject", cell |-> new, h |-> onR,
                                              arg |-> tuple.value, recv |-> this])]
       ELSE [m1 EXCEPT !.ob[this] = Observers_add(@, [cell |-> new, onfulfill |-> onF,
                                                      onreject |-> onR])]

\* mutant: on a pending receiver then sets the timer of onfulfill at once
Promyse_then_schedulesPending(m, this, onfulfill, onreject) ==
    LET onF == IF ~isFunction(onfulfill) THEN IdentityFn ELSE onfulfill
        onR == IF ~isFunction(onreject) THEN ThrowerFn ELSE onreject
        tuple == m.st[this]
        new == NewId(m)
        m1 == [allocate(m) EXCEPT !.tc = Append(@, [recv |-> this, cell |-> new,
                                                    settled |-> tuple.settled,
                                                    f |-> onfulfill, g |-> onreject,
                                                    onfulfill |-> onF, onreject |-> onR])]
    IN IF tuple.state = REJECTED
       THEN [m1 EXCEPT !.tm = Append(@, [which |-> "onreject", cell |-> new, h |-> onR,
                                         arg |-> tuple.value, recv |-> this])]
       ELSE [m1 EXCEPT !.tm = Append(@, [which |-> "onfulfill", cell |-> new, h |-> onF,
                                         arg |-> tuple.value, recv |-> this])]

\* mutant: on a settled receiver then always schedules onfulfill
Promyse_then_settledRunsOnfulfill(m, this, onfulfill, onreject) ==
    LET onF == IF ~isFunction(onfulfill) THEN IdentityFn ELSE onfulfill
        onR == IF ~isFunction(onreject) THEN ThrowerFn ELSE onreject
        tuple == m.st[this]
        new == NewId(m)
        m1 == [allocate(m) EXCEPT !.tc = Append(@, [recv |-> this, cell |-> new,
                                                    settled |-> tuple.settled,
                                                    f |-> onfulfill, g |-> onreject,
                                                    onfulfill |-> onF, onreject |-> onR])]
    IN IF tuple.settled
       THEN IF tuple.state \in {FULFILLED, REJECTED}
            THEN [m1 EXCEPT !.tm = Append(@, [which |-> "onfulfill", cell |-> new, h |-> onF,
                                              arg |-> tuple.value, recv |-> this])]
            ELSE [m1 EXCEPT !.tm = Append(@, [which |-> "onreject", cell |-> new, h |-> onR,
                                              arg |-> tuple.value, recv |-> this])]
       ELSE [m1 EXCEPT !.ob[this] = Observers_add(@, [cell |-> new, onfulfill |-> onF,
                                                      onreject |-> onR])]

\* mutant: on a pending receiver then stores the handlers under the cell it returns
Promyse_then_registersOnReturned(m, this, onfulfill, onreject) ==
    LET onF == IF ~isFunction(onfulfill) THEN IdentityFn ELSE onfulfill
        onR == IF ~isFunction(onreject) THEN ThrowerFn ELSE onreject
        tuple == m.st[this]
        new == NewId(m)
        m1 == [allocate(m) EXCEPT !.tc = Append(@, [recv |-> this, cell |-> new,
                                                    settled |-> tuple.settled,
                                                    f |-> onfulfill, g |-> onreject,
                                                    onfulfill |-> onF, onreject |-> onR])]
    IN IF tuple.settled
       THEN IF tuple.state = FULFILLED
            THEN [m1 EXCEPT !.tm = Append(@, [which |-> "onfulfill", cell |-> new, h |-> onF,
                                              arg |-> tuple.value, recv |-> this])]
            ELSE [m1 EXCEPT !.tm = Append(@, [which |-> "onreject", cell |-> new, h |-> onR,
                                              arg |-> tuple.value, recv |-> this])]
       ELSE [m1 EXCEPT !.ob[new] = Observers_add(@, [cell |-> new, onfulfill |-> onF,
                                                      onreject |-> onR])]

\* then: the cell it returns is NewId(m).  Neither executor of then can throw.
Promyse_then(m, this, onfulfill, onreject) ==
    LET onF == IF ~isFunction(onfulfill) THEN IdentityFn ELSE onfulfill
        onR == IF ~isFunction(onreject) THEN ThrowerFn ELSE onreject
        tuple == m.st[this]
        new == NewId(m)
        m1 == [allocate(m) EXCEPT !.tc = Append(@, [recv |-> this, cell |-> new,
                                                    settled |-> tuple.settled,
                                                    f |-> onfulfill, g |-> onreject,
                                                    onfulfill |-> onF, onreject |-> onR])]
    IN IF tuple.settled
       THEN IF tuple.state = FULFILLED
            THEN [m1 EXCEPT !.tm = Append(@, [which |-> "onfulfill", cell |-> new, h |-> onF,
                                              arg |-> tuple.value, recv |-> this])]
            ELSE [m1 EXCEPT !.tm = Append(@, [which |-> "onreject", cell |-> new, h |-> onR,
                                              arg |-> tuple.value, recv |-> this])]
       ELSE [m1 EXCEPT !.ob[this] = Observers_add(@, [cell |-> new, onfulfill |-> onF,
                                                      onreject |-> onR])]


\* mutant: catch gives its handler to then as onfulfill
Promyse_catch_swapped(m, this, onreject) == Promyse_then(m, this, onreject, Null)

\* catch(onreject) { return this.then(null, onreject) }
Promyse_catch(m, this, onreject) == Promyse_then(m, this, Null, onreject)

-----------------------------------------------------------------------------
(* resolve (index.js:614-723) with the thenable's then.call run inside it. *)

\* the value a script names, once the thenable is given to the cell this
Arg(this, a) == IF a = ThisCell THEN PromyseRef(this) ELSE a

Changed(m, r) == r.st # m.st \/ r.ob # m.ob \/ r.tm # m.tm

\* the timers a thenable's then sets for the calls it makes in later turns
LaterTimers(this, g, later) ==
    [i \in 1..Len(later) |-> [which |-> later[i].op, cell |-> this, g |-> g,
                              arg |-> Arg(this, later[i].arg)]]

\* the history's entry of a throw e of a then getter or of then.call: effect says
\* whether the throw settled the cell
Threw(r, this, g, op, e, effect) ==
    [r EXCEPT !.cl = Append(@, [g |-> g, op |-> op, arg |-> e, cell |-> this,
                                settled |-> r.st[this].settled, effect |-> effect])]

\* } catch (e) { if (!alreadyCalled) { reject.call(this, e) } }   (index.js:682-689);
\* r is the machine as then.call left it, scope the call stack to go back to
thenCallReturned(r, this, g, scope) ==
    IF r.exc # NoExc
    THEN IF ~r.ac[g]
         THEN reject([Threw(r, this, g, "thenThrew", r.exc, ~r.st[this].settled)
                         EXCEPT !.scope = scope, !.exc = NoExc], this, r.exc)
         ELSE [Threw(r, this, g, "thenThrew", r.exc, FALSE)
                  EXCEPT !.scope = scope, !.exc = NoExc]
    ELSE [r EXCEPT !.scope = scope]

\* alreadyCalled = true, which a throw of resolve.call skips; i is the call's
\* entry of the history, m the machine before the call
callbackReturned(r, m, g, i) ==
    IF r.exc = NoExc
    THEN [r EXCEPT !.ac[g] = TRUE, !.cl[i].effect = Changed(m, r)]
    ELSE [r EXCEPT !.cl[i].effect = Changed(m, r)]

\* } catch (e) { reject(e) } of the cell this
catchReject(r, this) ==
    IF r.exc # NoExc THEN reject(Caught(r), this, r.exc) ELSE r

RECURSIVE runThen(_, _, _), resolvePromise(_, _, _, _), nextOp(_, _, _, _)

\* mutant: resolve without the instanceof Promyse branch, a cell being a plain payload
resolve_noAdoption(m, this, value) ==
    IF PromyseRef(this) = value THEN Raise(m, SelfTypeError)
    ELSE IF m.st[this].settled THEN m
    ELSE fulfill(m, this, value)

\* mutant: resolve takes a cell that is already settled for a plain value
resolve_adoptsPendingOnly(m, this, value) ==
    IF PromyseRef(this) = value THEN Raise(m, SelfTypeError)
    ELSE IF m.st[this].settled THEN m
    ELSE IF value.t = "Promyse" /\ m.st[value.v].settled THEN fulfill(m, this, value)
    ELSE IF value.t = "Promyse"
         THEN Promyse_then(m, value.v, AdoptResolve(this), AdoptReject(this))
    ELSE IF isThenable(value)
         THEN LET T == Thenables[value.v] IN
              IF T.getThrows # NoExc
              THEN reject(Threw(m, this, 0, "getThrew", T.getThrows, TRUE), this, T.getThrows)
              ELSE IF T.isFn
                   THEN LET g == Len(m.ac) + 1
                            m1 == [m EXCEPT !.ac = Append(@, FALSE),
                                            !.scope = Append(@, g),
                                            !.tm = @ \o LaterTimers(this, g, T.later)]
                        IN thenCallReturned(runThen(m1, this, T.sync), this, g, m.scope)
                   ELSE fulfill(m, this, value)
    ELSE fulfill(m, this, value)

\* mutant: resolve copies the outcome of a cell that is already settled, at once
resolve_copiesSettled(m, this, value) ==
    IF PromyseRef(this) = value THEN Raise(m, SelfTypeError)
    ELSE IF m.st[this].settled THEN m
    ELSE IF value.t = "Promyse" /\ m.st[value.v].state = FULFILLED
         THEN fulfill(m, this, m.st[value.v].value)
    ELSE IF value.t = "Promyse" /\ m.st[value.v].state = REJECTED
         THEN reject(m, this, m.st[value.v].value)
    ELSE IF value.t = "Promyse"
         THEN Promyse_then(m, value.v, AdoptResolve(this), AdoptReject(this))
    ELSE IF isThenable(value)
         THEN LET T == Thenables[value.v] IN
              IF T.getThrows # NoExc
              THEN reject(Threw(m, this, 0, "getThrew", T.getThrows, TRUE), this, T.getThrows)
              ELSE IF T.isFn
                   THEN LET g == Len(m.ac) + 1
                            m1 == [m EXCEPT !.ac = Append(@, FALSE),
                                            !.scope = Append(@, g),
                                            !.tm = @ \o LaterTimers(this, g, T.later)]
                        IN thenCallReturned(runThen(m1, this, T.sync), this, g, m.scope)
                   ELSE fulfill(m, this, value)
    ELSE fulfill(m, this, value)

resolve(m, this, value) ==
    IF PromyseRef(this) = value THEN Raise(m, SelfTypeError)
    ELSE IF m.st[this].settled THEN m
    ELSE IF value.t = "Promyse"
         THEN Promyse_then(m, value.v, AdoptResolve(this), AdoptReject(this))
    ELSE IF isThenable(value)
         THEN LET T == Thenables[value.v] IN
              IF T.getThrows # NoExc
              THEN reject(Threw(m, this, 0, "getThrew", T.getThrows, TRUE), this, T.getThrows)
              ELSE IF T.isFn
                   THEN LET g == Len(m.ac) + 1
                            m1 == [m EXCEPT !.ac = Append(@, FALSE),
                                            !.scope = Append(@, g),
                                            !.tm = @ \o LaterTimers(this, g, T.later)]
                        IN thenCallReturned(runThen(m1, this, T.sync), this, g, m.scope)
                   ELSE fulfill(m, this, value)
    ELSE fulfill(m, this, value)

\* value => { if (!alreadyCalled) { resolve.call(this, value); alreadyCalled = true } }
resolvePromise(m, this, g, value) ==
    LET i == Len(m.cl) + 1
        m0 == [m EXCEPT !.cl = Append(@, [g |-> g, op |-> "resolvePromise", arg |-> value,
                                          cell |-> this, settled |-> m.st[this].settled,
                                          effect |-> FALSE])]
    IN IF ~m.ac[g]
       THEN callbackReturned(resolve(m0, this, value), m, g, i)
       ELSE m0

\* reason => { if (!alreadyCalled) { reject.call(this, reason); alreadyCalled = true } }
rejectPromise(m, this, g, reason) ==
    LET i == Len(m.cl) + 1
        m0 == [m EXCEPT !.cl = Append(@, [g |-> g, op |-> "rejectPromise", arg |-> reason,
                                          cell |-> this, settled |-> m.st[this].settled,
                                          effect |-> FALSE])]
    IN IF ~m.ac[g]
       THEN callbackReturned(reject(m0, this, reason), m, g, i)
       ELSE m0

\* the body of a thenable's then, run inside then.call(value, resolvePromise, rejectPromise)
runThen(m, this, script) ==
    IF script = << >> THEN m
    ELSE LET o == Head(script)
             depth == Len(m.scope)
             g == m.scope[IF depth > o.lvl THEN depth - o.lvl ELSE 1]
             arg == Arg(this, o.arg)
         IN nextOp(CASE o.op = "resolvePromise" -> resolvePromise(m, this, g, arg)
                     [] o.op = "rejectPromise" -> rejectPromise(m, this, g, arg)
                     [] OTHER -> Raise(m, arg),
                   this, o.guarded, Tail(script))

\* after one op: an exception ends the script unless the thenable catches it
nextOp(r, this, guarded, rest) ==
    IF r.exc # NoExc /\ ~guarded THEN r ELSE runThen(Caught(r), this, rest)

-----------------------------------------------------------------------------
(* finally (index.js:155-399).  path is "value" inside the handler finally *)
(* gives to then as onfulfill and "reason" inside the one it gives as      *)
(* onreject; orig is the argument of that handler, the receiver's payload. *)

\* if (typeof onfinally !== 'function') { onfinally = x => x }; return this.then(.., ..)
Promyse_finally(m, this, onfinally) ==
    Promyse_then(m, this,
                 FinallyOnFulfill(IF isFunction(onfinally) THEN onfinally ELSE IdentityFn),
                 FinallyOnReject(IF isFunction(onfinally) THEN onfinally ELSE IdentityFn))

\* mutant: onfinally is called with the payload of the receiver
callOnfinally_passesPayload(m, timer) ==
    LET m1 == [m EXCEPT !.log = Append(@, [cell |-> timer.cell, recv |-> timer.recv,
                                           which |-> "onfinally", h |-> timer.h.a,
                                           arg |-> timer.arg])]
    IN CASE timer.h.a.h = "identity" -> [m |-> m1, ret |-> timer.arg]
         [] timer.h.a.h = "return" -> [m |-> m1, ret |-> timer.h.a.a]
         [] timer.h.a.h = "throw" -> [m |-> Raise(m1, timer.h.a.a), ret |-> Undefined]
         [] timer.h.a.h = "returnSelf" -> [m |-> m1, ret |-> PromyseRef(timer.cell)]

\* onfinallyResult = onfinally(): x => x called with no argument returns undefined
callOnfinally(m, timer) ==
    LET m1 == [m EXCEPT !.log = Append(@, [cell |-> timer.cell, recv |-> timer.recv,
                                           which |-> "onfinally", h |-> timer.h.a,
                                           arg |-> NoArgument])]
    IN CASE timer.h.a.h = "identity" -> [m |-> m1, ret |-> Undefined]
         [] timer.h.a.h = "return" -> [m |-> m1, ret |-> timer.h.a.a]
         [] timer.h.a.h = "throw" -> [m |-> Raise(m1, timer.h.a.a), ret |-> Undefined]
         [] timer.h.a.h = "returnSelf" -> [m |-> m1, ret |-> PromyseRef(timer.cell)]

\* alreadyCalled = true, which a throw before it skips
finallyCalled(r, g) == IF r.exc = NoExc THEN [r EXCEPT !.ac[g] = TRUE] ELSE r

\* () => { if (!alreadyCalled) { resRej.resolve(value); alreadyCalled = true } } on the
\* path of a value; on the path of a reason the callback is
\* () => { if (!alreadyCalled) { resRej.reject(value); alreadyCalled = true } }, where
\* no value is in scope
finallyFirst(m, P, g, path, orig) ==
    IF m.ac[g] THEN m
    ELSE IF path = "value" THEN finallyCalled(resolve(m, P, orig), g)
    ELSE Raise(m, ReferenceError)

\* reason => { if (!alreadyCalled) { resRej.reject(reason); alreadyCalled = true } }
finallySecond(m, P, g, reason) ==
    IF m.ac[g] THEN m ELSE finallyCalled(reject(m, P, reason), g)

\* the body of the thenable's then, run inside then.call(onfinallyResult, .., ..)
RECURSIVE finallyThen(_, _, _, _, _, _), finallyNextOp(_, _, _, _, _, _, _)
finallyThen(m, P, g, script, path, orig) ==
    IF script = << >> THEN m
    ELSE finallyNextOp(CASE Head(script).op = "resolvePromise" ->
                                finallyFirst(m, P, g, path, orig)
                         [] Head(script).op = "rejectPromise" ->
                                finallySecond(m, P, g, Arg(P, Head(script).arg))
                         [] OTHER -> Raise(m, Arg(P, Head(script).arg)),
                       P, g, Head(script).guarded, Tail(script), path, orig)

finallyNextOp(r, P, g, guarded, rest, path, orig) ==
    IF r.exc # NoExc /\ ~guarded THEN r ELSE finallyThen(Caught(r), P, g, rest, path, orig)

\* the timers the thenable's then sets for the calls it makes in later turns
FinallyLaterTimers(P, g, later, path, orig) ==
    [i \in 1..Len(later) |-> [which |-> IF later[i].op = "resolvePromise"
                                        THEN "finallyFirst" ELSE "finallySecond",
                              cell |-> P, g |-> g, arg |-> Arg(P, later[i].arg),
                              path |-> path, orig |-> orig]]

\* } catch (e) { if (!alreadyCalled) { resRej.reject(e) } }; return promyseToBeReturned
finallyThenReturned(r, P, g) ==
    [m |-> IF r.exc = NoExc THEN r
           ELSE IF r.ac[g] THEN Caught(r)
           ELSE reject(Caught(r), P, r.exc),
     ret |-> PromyseRef(P)]

\* let alreadyCalled = false; promyseToBeReturned = new Promyse(...); then.call(...)
finallyThenCall(m, T, path, orig) ==
    finallyThenReturned(
        finallyThen([allocate(m) EXCEPT !.ac = Append(@, FALSE),
                                        !.tm = @ \o FinallyLaterTimers(NewId(m), Len(m.ac) + 1,
                                                                       T.later, path, orig)],
                    NewId(m), Len(m.ac) + 1, T.sync, path, orig),
        NewId(m), Len(m.ac) + 1)

\* mutant: the handler ends without a return or a throw
finallyPassOn_dropsPayload(m, path, orig) == [m |-> m, ret |-> Undefined]

\* return value, on the path of a value; throw reason, on the path of a reason
finallyPassOn(m, path, orig) ==
    IF path = "value" THEN [m |-> m, ret |-> orig]
    ELSE [m |-> Raise(m, orig), ret |-> Undefined]

\* the rest of the handler once onfinally() has returned or thrown
afterOnfinally(called, path, orig) ==
    IF called.m.exc # NoExc THEN called
    ELSE IF called.ret.t = "Promyse"
         THEN [m |-> Promyse_then(called.m, called.ret.v,
                                  IF path = "value" THEN Return(orig) ELSE Throw(orig),
                                  NotFunction),
               ret |-> PromyseRef(NewId(called.m))]
    ELSE IF isThenable(called.ret)
         THEN IF Thenables[called.ret.v].getThrows # NoExc
              THEN [m |-> Raise(called.m, Thenables[called.ret.v].getThrows), ret |-> Undefined]
              ELSE IF Thenables[called.ret.v].isFn
                   THEN finallyThenCall(called.m, Thenables[called.ret.v], path, orig)
                   ELSE IF path = "value" THEN [m |-> called.m, ret |-> orig]
                        ELSE [m |-> Raise(called.m, ReferenceError), ret |-> Undefined]
    ELSE finallyPassOn(called.m, path, orig)

-----------------------------------------------------------------------------
(* The callbacks the timer queue runs. *)

\* arrayOf...[idx] = x; if (arrayOf....map(el => el).length === iterableOfPromysesLength)
\* the cell of the aggregate call is resolved, or rejected, with the array
collected(m, c, settle) ==
    IF Array_length(Array_map(m.ar[c.v])) = c.n
    THEN IF settle = "resolve" THEN resolve(m, c.v, ArrayRef(c.v))
         ELSE reject(m, c.v, ArrayRef(c.v))
    ELSE m

collect(m, c, x, settle) ==
    collected([m EXCEPT !.ar[c.v] = Array_set(@, c.idx, x)], c, settle)

\* calling the handler h of the then call that returned cell, with argument x
applyHandler(m, timer) ==
    LET h == timer.h
        x == timer.arg
        m1 == [m EXCEPT !.log = Append(@, [cell |-> timer.cell, recv |-> timer.recv,
                                           which |-> timer.which, h |-> h, arg |-> x])]
    IN CASE h.h = "identity" -> [m |-> m1, ret |-> x]
         [] h.h = "thrower" -> [m |-> Raise(m1, x), ret |-> Undefined]
         [] h.h = "return" -> [m |-> m1, ret |-> h.a]
         [] h.h = "throw" -> [m |-> Raise(m1, h.a), ret |-> Undefined]
         [] h.h = "returnSelf" -> [m |-> m1, ret |-> PromyseRef(timer.cell)]
         [] h.h = "adoptResolve" -> [m |-> resolve(m1, h.a.v, x), ret |-> Undefined]
         [] h.h = "adoptReject" -> [m |-> reject(m1, h.a.v, x), ret |-> Undefined]
         [] h.h = "allCollect" -> [m |-> collect(m1, h.a, x, "resolve"), ret |-> Undefined]
         [] h.h = "anyCollect" -> [m |-> collect(m1, h.a, x, "reject"), ret |-> Undefined]
         [] h.h = "settleIntoArray" ->
                [m |-> collect(m1, h.a, x, "resolve"), ret |-> Undefined]
         [] h.h = "aggResolve" -> [m |-> resolve(m1, h.a.v, x), ret |-> Undefined]
         [] h.h = "aggReject" -> [m |-> reject(m1, h.a.v, x), ret |-> Undefined]
         [] h.h = "finallyValue" -> afterOnfinally(callOnfinally(m1, timer), "value", x)
         [] h.h = "finallyReason" -> afterOnfinally(callOnfinally(m1, timer), "reason", x)

\* try { resolve(onfulfill(v)) } catch (e) { reject(e) }   (index.js:74-81, 90-97,
\* 122-129, 134-138), resolve and reject being those of the cell then returned
resolveReturned(called, this) ==
    IF called.m.exc # NoExc THEN called.m ELSE resolve(called.m, this, called.ret)

\* mutant: on the rejected path the handler's result is given to reject
runObserver_rejectsResult(m, timer) ==
    IF timer.which = "onreject"
    THEN reject(applyHandler(m, timer).m, timer.cell,
                IF applyHandler(m, timer).m.exc # NoExc THEN applyHandler(m, timer).m.exc
                ELSE applyHandler(m, timer).ret)
    ELSE catchReject(resolveReturned(applyHandler(m, timer), timer.cell), timer.cell)

runObserver(m, timer) ==
    catchReject(resolveReturned(applyHandler(m, timer), timer.cell), timer.cell)

\* one callback of the timer queue, run to completion
runTimer(m, timer) ==
    CASE timer.which \in {"onfulfill", "onreject"} -> runObserver(m, timer)
      [] timer.which = "resolvePromise" -> resolvePromise(m, timer.cell, timer.g, timer.arg)
      [] timer.which = "rejectPromise" -> rejectPromise(m, timer.cell, timer.g, timer.arg)
      [] timer.which = "finallyFirst" ->
             finallyFirst(m, timer.cell, timer.g, timer.path, timer.orig)
      [] timer.which = "finallySecond" -> finallySecond(m, timer.cell, timer.g, timer.arg)


-----------------------------------------------------------------------------
(* The older implementation at the root of the repository (src/index.js): *)
(* its then, resolve and reject, for values that are not cells.  Its      *)
(* constructor is the one above.                                           *)

\* while (observers.hasNext) { setTimeout(observers.get()[which], 0, value) }
RECURSIVE Root_drain(_, _, _, _)
Root_drain(m, this, which, value) ==
    IF Observers_hasNext(m.ob[this]) = 0 THEN m
    ELSE LET got == Observers_get(m.ob[this])
             timer == [which |-> which, cell |-> got.entry.cell, h |-> got.entry[which],
                       arg |-> value, recv |-> this]
         IN Root_drain([m EXCEPT !.ob[this] = got.rest, !.tm = Append(@, timer)],
                       this, which, value)

\* the drain and instancesObserves.delete(this), made whether or not the call settled
\* the cell; observers is undefined once the collection was deleted
Root_notify(m, this, which, value) ==
    IF this \in DOMAIN m.ob
    THEN [Root_drain(m, this, which, value) EXCEPT !.ob = Remove(@, this)]
    ELSE Raise(m, UndefinedTypeError)

\* resolve of src/index.js for a value that is not a Promyse: the observers are given
\* the value of the tuple read before the cell was settled
Root_resolve(m, this, value) ==
    IF ~m.st[this].settled
    THEN Root_notify([m EXCEPT !.st[this] = State(FULFILLED, value, TRUE)], this,
                     "onfulfill", m.st[this].value)
    ELSE Root_notify(m, this, "onfulfill", m.st[this].value)

Root_reject(m, this, reason) ==
    IF ~m.st[this].settled
    THEN Root_notify([m EXCEPT !.st[this] = State(REJECTED, reason, TRUE)], this,
                     "onreject", m.st[this].value)
    ELSE Root_notify(m, this, "onreject", m.st[this].value)

\* } catch (e) { reject(e) }
Root_catchReject(r, this) ==
    IF r.exc # NoExc THEN Root_reject(Caught(r), this, r.exc) ELSE r

\* resolve(handler(value)) or reject(handler(value)), by the wrapper that was called
Root_settleWith(called, this, which) ==
    IF called.m.exc # NoExc THEN called.m
    ELSE IF which = "onfulfill" THEN Root_resolve(called.m, this, called.ret)
    ELSE Root_reject(called.m, this, called.ret)

\* try { resolve(onfulfill(value)) } catch (e) { reject(e) }   (src/index.js:63-73, 102-109)
\* try { reject(onreject(value)) } catch (e) { reject(e) }     (src/index.js:75-80)
\* try { reject(onfulfill(value)) } catch (e) { reject(e) }    (src/index.js:114-118)
Root_runObserver(m, timer) ==
    Root_catchReject(Root_settleWith(applyHandler(m, timer), timer.cell, timer.which),
                     timer.cell)

\* then of src/index.js: on a settled receiver the handler runs inside the call; on a
\* pending one the entry's onreject wrapper is built on onfulfill
Root_then(m, this, onfulfill, onreject) ==
    LET onF == IF ~isFunction(onfulfill) THEN IdentityFn ELSE onfulfill
        onR == IF ~isFunction(onreject) THEN ThrowerFn ELSE onreject
        tuple == m.st[this]
        new == NewId(m)
        m1 == [allocate(m) EXCEPT !.tc = Append(@, [recv |-> this, cell |-> new,
                                                    settled |-> tuple.settled,
                                                    f |-> onfulfill, g |-> onreject,
                                                    onfulfill |-> onF, onreject |-> onR])]
    IN IF tuple.settled
       THEN IF tuple.state = FULFILLED
            THEN Root_runObserver(m1, [which |-> "onfulfill", cell |-> new, h |-> onF,
                                       arg |-> tuple.value, recv |-> this])
            ELSE Root_runObserver(m1, [which |-> "onreject", cell |-> new, h |-> onR,
                                       arg |-> tuple.value, recv |-> this])
       ELSE IF this \in DOMAIN m1.ob
            THEN [m1 EXCEPT !.ob[this] = Observers_add(@, [cell |-> new, onfulfill |-> onF,
                                                           onreject |-> onF])]
            ELSE Root_reject(m1, new, UndefinedTypeError)

-----------------------------------------------------------------------------
(* The constructor (index.js:18-43) run on a setup routine given as a     *)
(* script: calls of the resolve and reject it is handed, and a throw.     *)

RECURSIVE runSetup(_, _, _), nextSetupOp(_, _, _)
runSetup(m, this, script) ==
    IF script = << >> THEN m
    ELSE LET o == Head(script)
         IN nextSetupOp(CASE o.op = "resolve" -> resolve(m, this, o.arg)
                          [] o.op = "reject" -> reject(m, this, o.arg)
                          [] OTHER -> Raise(m, o.arg),
                        this, Tail(script))

nextSetupOp(r, this, rest) == IF r.exc # NoExc THEN r ELSE runSetup(r, this, rest)

\* mutant: the constructor catches what the setup throws and drops it
Promyse_constructor_dropsThrow(m, script) ==
    Caught(runSetup(allocate(m), NewId(m), script))

\* try { executor(resolve.bind(this), reject.bind(this)) } catch (e) { reject.call(this, e) }
Promyse_constructor(m, script) ==
    catchReject(runSetup(allocate(m), NewId(m), script), NewId(m))

\* deferred() (the test adapter): the setup only stores resolve and reject
deferred(m) == Promyse_constructor(m, << >>)

-----------------------------------------------------------------------------
(* Promyse.resolve and the aggregate calls all, any, allSettled            *)
(* (index.js:402-411, 425-580).                                            *)

\* mutant: Promyse.resolve wraps a Promyse as it wraps any other value
Promyse_resolve_wraps(m, value) ==
    [m |-> Promyse_constructor(m, <<Op("resolve", value)>>), ret |-> NewId(m)]

\* Promyse.resolve(value): m is the machine after the call, ret the cell returned
Promyse_resolve(m, value) ==
    IF value.t = "Promyse" THEN [m |-> m, ret |-> value.v]
    ELSE [m |-> Promyse_constructor(m, <<Op("resolve", value)>>), ret |-> NewId(m)]

\* mutant: Promyse.reject wraps every value
Promyse_reject_wraps(m, value) ==
    [m |-> Promyse_constructor(m, <<Op("reject", value)>>), ret |-> NewId(m)]

\* Promyse.reject(value): m is the machine after the call, ret the cell returned
Promyse_reject(m, value) ==
    IF value.t = "Promyse" THEN [m |-> m, ret |-> value.v]
    ELSE [m |-> Promyse_constructor(m, <<Op("reject", value)>>), ret |-> NewId(m)]

\* one more element of [...iterable].map(el => Promyse.resolve(el))
wrapped(res, cells) == [m |-> res.m, cells |-> Append(cells, res.ret)]

RECURSIVE wrapElements(_, _)
wrapElements(w, els) ==
    IF els = << >> THEN w
    ELSE wrapElements(wrapped(Promyse_resolve(w.m, Head(els)), w.cells), Tail(els))

\* the two handlers an aggregate call gives to then for the input at idx
OnFulfill(kind, agg, idx, n) ==
    CASE kind = "all" -> AllCollect(agg, idx, n)
      [] kind = "any" -> AggResolve(agg)
      [] kind = "allSettled" -> SettleIntoArray(agg, idx, n)
      [] kind = "allSettled_rejects" -> SettleIntoArray(agg, idx, n)
      [] kind = "race" -> AggResolve(agg)

OnReject(kind, agg, idx, n) ==
    CASE kind = "all" -> AggReject(agg)
      [] kind = "any" -> AnyCollect(agg, idx, n)
      [] kind = "allSettled" -> SettleIntoArray(agg, idx, n)
      [] kind = "allSettled_rejects" -> AggReject(agg)
      [] kind = "race" -> AggReject(agg)

\* iterableOfPromyses.forEach((promyse, idx) => { promyse.then(.., ..) })
RECURSIVE forEachThen(_, _, _, _, _)
forEachThen(m, cells, agg, idx, kind) ==
    IF idx > Len(cells) THEN m
    ELSE forEachThen(Promyse_then(m, cells[idx], OnFulfill(kind, agg, idx, Len(cells)),
                                  OnReject(kind, agg, idx, Len(cells))),
                     cells, agg, idx + 1, kind)

\* a new array for the cell the aggregate call is about to make
withArray(m) == [m EXCEPT !.ar = Extend(@, NewId(m), Array_new)]

\* mutant: all, any and allSettled without their branch for an empty iterable
aggregate_noEmptyBranch(w, kind) ==
    catchReject(forEachThen(allocate(withArray(w.m)), w.cells, NewId(w.m), 1, kind),
                NewId(w.m))

\* the part all, any and allSettled share: w holds the machine and the cells after
\* the map over Promyse.resolve
aggregate(w, kind) ==
    IF Len(w.cells) = 0
    THEN Promyse_constructor(withArray(w.m), <<Op("resolve", ArrayRef(NewId(w.m)))>>)
    ELSE catchReject(forEachThen(allocate(withArray(w.m)), w.cells, NewId(w.m), 1, kind),
                     NewId(w.m))

\* mutant: all without the test of its argument, which it takes for an empty iterable
Promyse_all_noCheck(m, iterable) == aggregate([m |-> m, cells |-> << >>], "all")

Promyse_all(m, iterable) ==
    IF iterable.t # "iterable" THEN Raise(m, NotIterableTypeError)
    ELSE aggregate(wrapElements([m |-> m, cells |-> << >>], iterable.v), "all")

Promyse_any(m, iterable) ==
    IF iterable.t # "iterable" THEN Raise(m, NotIterableTypeError)
    ELSE aggregate(wrapElements([m |-> m, cells |-> << >>], iterable.v), "any")

\* mutant: allSettled gives then `reason => reject(reason)`, as all does
Promyse_allSettled_rejects(m, iterable) ==
    IF iterable.t # "iterable" THEN Raise(m, NotIterableTypeError)
    ELSE aggregate(wrapElements([m |-> m, cells |-> << >>], iterable.v),
                   "allSettled_rejects")

Promyse_allSettled(m, iterable) ==
    IF iterable.t # "iterable" THEN Raise(m, NotIterableTypeError)
    ELSE aggregate(wrapElements([m |-> m, cells |-> << >>], iterable.v), "allSettled")

\* mutant: race gives then the handlers of any
Promyse_race_collects(m, iterable) ==
    IF iterable.t # "iterable" THEN Raise(m, NotIterableTypeError)
    ELSE aggregate(wrapElements([m |-> m, cells |-> << >>], iterable.v), "any")

\* mutant: race with the branch for an empty iterable that all, any and allSettled have
raceExecutor_emptyBranch(w) ==
    IF Len(w.cells) = 0
    THEN Promyse_constructor(withArray(w.m), <<Op("resolve", ArrayRef(NewId(w.m)))>>)
    ELSE catchReject(forEachThen(allocate(w.m), w.cells, NewId(w.m), 1, "race"), NewId(w.m))

\* new Promyse((resolve, reject) => { iterableOfPromyses.forEach(...) }) of race, which
\* has no branch for an empty iterable and builds no array
raceExecutor(w) ==
    catchReject(forEachThen(allocate(w.m), w.cells, NewId(w.m), 1, "race"), NewId(w.m))

Promyse_race(m, iterable) ==
    IF iterable.t # "iterable" THEN Raise(m, NotIterableTypeError)
    ELSE raceExecutor(wrapElements([m |-> m, cells |-> << >>], iterable.v))

-----------------------------------------------------------------------------
(* The turns. *)

Commit(r, d) ==
    /\ instancesStatesMap' = r.st
    /\ instancesObservers' = r.ob
    /\ timers' = r.tm
    /\ alreadyCalled' = r.ac
    /\ arrays' = r.ar
    /\ handlerLog' = r.log
    /\ thenCalls' = r.tc
    /\ callbackLog' = r.cl
    /\ uncaught' = r.exc
    /\ driver' = d

Fits(r) == Cardinality(DOMAIN r.st) <= MaxCells

CommitIfFits(r, d) == Fits(r) /\ Commit(r, d)

\* history of the static calls: the last one made, none here
NoCall == [op |-> "none", arg |-> Undefined, ret |-> 0]

\* history of the aggregate call: none was made
NoAggregate == [cell |-> 0, kind |-> "none", inputs |-> << >>, elements |-> << >>, at |-> 0]

Init ==
    /\ instancesStatesMap = << >>
    /\ instancesObservers = << >>
    /\ timers = << >>
    /\ alreadyCalled = << >>
    /\ arrays = << >>
    /\ handlerLog = << >>
    /\ thenCalls = << >>
    /\ callbackLog = << >>
    /\ uncaught = NoExc
    /\ driver = [cells |-> {}, fns |-> {}, selfCalls |-> {}, late |-> {}, linked |-> {},
                 rejects |-> << >>,
                 agg |-> NoAggregate, order |-> << >>, setups |-> << >>,
                 call |-> NoCall, ncalls |-> 0, catches |-> {}, finallies |-> {},
                 adopted |-> {}, overrides |-> << >>, emptyRaces |-> {}]

\* o = deferred(): the driver keeps o.promise, o.resolve and o.reject
Deferred ==
    CommitIfFits(deferred(Machine),
                 [driver EXCEPT !.cells = @ \cup {NewId(Machine)},
                                !.fns = @ \cup {NewId(Machine)}])

\* history of a construction: what the setup threw and the cell's State at the throw
SetupRecord(ran, this) == [threw |-> ran.exc, atThrow |-> ran.st[this]]

\* p = new Promyse(setup)
NewPromyse(script) ==
    CommitIfFits(Promyse_constructor(Machine, script),
                 [driver EXCEPT !.cells = @ \cup {NewId(Machine)},
                                !.setups = Extend(@, NewId(Machine),
                                    SetupRecord(runSetup(allocate(Machine), NewId(Machine), script),
                                                NewId(Machine)))])

\* history: the cells whose resolveFn or rejectFn was called after they had settled
LateCall(c) == IF instancesStatesMap[c].settled THEN driver.late \cup {c} ELSE driver.late

\* o.resolve(value), at any time after deferred() returned
CallResolve(c, value) ==
    /\ c \in driver.fns
    /\ CommitIfFits(resolve(Machine, c, value),
                    [driver EXCEPT !.selfCalls =
                        IF value = PromyseRef(c) /\ ~instancesStatesMap[c].settled
                        THEN @ \cup {c} ELSE @,
                                   !.late = LateCall(c)])

\* o.reject(reason)
CallReject(c, reason) ==
    /\ c \in driver.fns
    /\ Commit(reject(Machine, c, reason), [driver EXCEPT !.late = LateCall(c)])

\* o.reject(reason) on a pending cell, the driver noting the reason it gave
RejectWith(c, reason) ==
    /\ c \in driver.fns
    /\ ~instancesStatesMap[c].settled
    /\ Commit(reject(Machine, c, reason), [driver EXCEPT !.rejects = Extend(@, c, reason)])

\* q = p.then(onfulfill, onreject)
Then(c, onfulfill, onreject) ==
    /\ c \in driver.cells
    /\ CommitIfFits(Promyse_then(Machine, c, onfulfill, onreject),
                    [driver EXCEPT !.cells = @ \cup {NewId(Machine)}])

\* the timer queue runs its first callback
RunTimer ==
    /\ timers # << >>
    /\ \E r \in {runTimer([Machine EXCEPT !.tm = Tail(timers)], Head(timers))} :
           Commit(r, driver)

-----------------------------------------------------------------------------
(* Spec: deferred cells settled by the driver, at any time and any number  *)
(* of times, with plain values, with other cells and with themselves.      *)

DriverValues == {Plain(1)} \cup {PromyseRef(c) : c \in driver.cells}
DriverReasons == {Plain(2)}

Next ==
    \/ Deferred
    \/ \E c \in driver.fns, v \in DriverValues : CallResolve(c, v)
    \/ \E c \in driver.fns, v \in DriverReasons : CallReject(c, v)
    \/ \E c \in driver.cells : Then(c, Return(Plain(1)), Throw(Plain(2)))
    \/ RunTimer

Spec == Init /\ [][Next]_vars

-----------------------------------------------------------------------------
(* SpecChain: chains of then calls on deferred cells, the handlers         *)
(* returning plain values, cells, the chained cell itself and thenables,   *)
(* or throwing.                                                             *)

\* the (onfulfill, onreject) pairs the driver passes to then
DriverHandlers ==
    {<<Return(Plain(1)), Return(Plain(1))>>, <<Throw(Plain(2)), Throw(Plain(2))>>,
     <<ReturnSelf, ReturnSelf>>, <<Return(Thenable(1)), Return(Thenable(2))>>}
        \cup {<<Return(PromyseRef(c)), Return(PromyseRef(c))>> : c \in driver.cells}

NextChain ==
    \/ Deferred
    \/ \E c \in driver.fns : CallResolve(c, Plain(1))
    \/ \E c \in driver.fns : CallReject(c, Plain(2))
    \/ \E c \in driver.cells, fg \in DriverHandlers : Then(c, fg[1], fg[2])
    \/ RunTimer

SpecChain == Init /\ [][NextChain]_vars

-----------------------------------------------------------------------------
(* SpecDrain: one deferred cell, then calls made on it before and after it *)
(* is settled, and a timer queue that runs every callback it holds:        *)
(* setTimeout callbacks are run by the event loop whenever the queue is    *)
(* not empty.                                                               *)

DrainHandlers == {<<Return(Plain(1)), Throw(Plain(2))>>, <<NotFunction, Null>>}

FirstDeferred == driver.fns = {} /\ Deferred

NextDrain ==
    \/ FirstDeferred
    \/ \E c \in driver.fns : CallResolve(c, Plain(1))
    \/ \E c \in driver.fns : CallReject(c, Plain(2))
    \/ \E c \in driver.fns, fg \in DrainHandlers : Then(c, fg[1], fg[2])
    \/ RunTimer

SpecDrain == Init /\ [][NextDrain]_vars /\ WF_vars(RunTimer)


-----------------------------------------------------------------------------
(* SpecUnwrap: a chain of deferred cells 1 .. MaxDepth.  The driver         *)
(* resolves each cell but the last with the next one, fulfils the last     *)
(* with a plain value, and rejects any cell but the first, each with a     *)
(* reason of its own; the timer queue runs every callback it is given.     *)

\* the state after MaxDepth calls of deferred()
InitUnwrap ==
    /\ instancesStatesMap = [c \in 1..MaxDepth |-> DefaultState]
    /\ instancesObservers = [c \in 1..MaxDepth |-> Observers_new]
    /\ timers = << >>
    /\ alreadyCalled = << >>
    /\ arrays = << >>
    /\ handlerLog = << >>
    /\ thenCalls = << >>
    /\ callbackLog = << >>
    /\ uncaught = NoExc
    /\ driver = [cells |-> 1..MaxDepth, fns |-> 1..MaxDepth, selfCalls |-> {}, late |-> {},
                 linked |-> {}, rejects |-> << >>,
                 agg |-> NoAggregate, order |-> << >>, setups |-> << >>,
                 call |-> NoCall, ncalls |-> 0, catches |-> {}, finallies |-> {},
                 adopted |-> {}, overrides |-> << >>, emptyRaces |-> {}]

\* o[c].resolve(o[c + 1].promise), once per cell
Link(c) ==
    /\ c \in driver.fns
    /\ c \notin driver.linked
    /\ Commit(resolve(Machine, c, PromyseRef(c + 1)), [driver EXCEPT !.linked = @ \cup {c}])

\* o[MaxDepth].resolve(1)
ResolveInnermost ==
    Commit(resolve(Machine, MaxDepth, Plain(1)), [driver EXCEPT !.late = LateCall(MaxDepth)])

NextUnwrap ==
    \/ \E c \in 1..(MaxDepth - 1) : Link(c)
    \/ ResolveInnermost
    \/ \E c \in 2..MaxDepth : CallReject(c, Plain(c))
    \/ RunTimer

\* setTimeout runs every callback it was given
SpecUnwrap == InitUnwrap /\ [][NextUnwrap]_vars /\ WF_vars(RunTimer)

-----------------------------------------------------------------------------
(* SpecThenable: one deferred cell whose resolveFn is given thenables, and *)
(* is also called with a plain value, as is its rejectFn, at any time.     *)

\* the state after o = deferred()
InitThenable ==
    /\ instancesStatesMap = <<DefaultState>>
    /\ instancesObservers = <<Observers_new>>
    /\ timers = << >>
    /\ alreadyCalled = << >>
    /\ arrays = << >>
    /\ handlerLog = << >>
    /\ thenCalls = << >>
    /\ callbackLog = << >>
    /\ uncaught = NoExc
    /\ driver = [cells |-> {1}, fns |-> {1}, selfCalls |-> {}, late |-> {}, linked |-> {},
                 rejects |-> << >>,
                 agg |-> NoAggregate, order |-> << >>, setups |-> << >>,
                 call |-> NoCall, ncalls |-> 0, catches |-> {}, finallies |-> {},
                 adopted |-> {}, overrides |-> << >>, emptyRaces |-> {}]

\* the thenables the driver makes itself; 12 is made by the then of 11
DriverThenables == {k \in 1..Len(Thenables) : k # 12}

\* o.resolve(thenable)
GiveThenable(c, k) ==
    /\ Len(alreadyCalled) < MaxThenCalls
    /\ CallResolve(c, Thenable(k))

NextThenable ==
    \/ \E c \in driver.fns, k \in DriverThenables : GiveThenable(c, k)
    \/ \E c \in driver.fns : CallResolve(c, Plain(1))
    \/ \E c \in driver.fns : CallReject(c, Plain(2))
    \/ RunTimer

SpecThenable == InitThenable /\ [][NextThenable]_vars

-----------------------------------------------------------------------------
(* SpecSetup: cells made by new Promyse(setup), the setup calling the      *)
(* resolve and reject it is handed and throwing.                           *)

SetupScripts ==
    {<<Op("throw", Plain(3))>>,
     <<Op("resolve", Plain(1))>>,
     <<Op("reject", Plain(2))>>,
     <<Op("resolve", Plain(1)), Op("throw", Plain(3))>>,
     <<Op("reject", Plain(2)), Op("throw", Plain(3))>>,
     <<Op("resolve", Thenable(1)), Op("throw", Plain(3))>>,
     <<Op("resolve", Thenable(4)), Op("throw", Plain(3))>>}
        \cup {<<Op("resolve", PromyseRef(c)), Op("throw", Plain(3))>> : c \in driver.cells}

NextSetup ==
    \/ \E script \in SetupScripts : NewPromyse(script)
    \/ RunTimer

SpecSetup == Init /\ [][NextSetup]_vars

-----------------------------------------------------------------------------
(* SpecPass: deferred cells rejected with plain reasons, thenables and     *)
(* cells (themselves included), and then calls that leave out a handler.   *)

RejectReasons == {Plain(2), Thenable(1)} \cup {PromyseRef(c) : c \in driver.cells}

\* the (onfulfill, onreject) pairs with a handler that is not a function
PassHandlers ==
    {<<NotFunction, Return(Plain(3))>>, <<Return(Plain(3)), NotFunction>>}

NextPass ==
    \/ Deferred
    \/ \E c \in driver.fns, v \in {Plain(1), Thenable(8)} : CallResolve(c, v)
    \/ \E c \in driver.fns, r \in RejectReasons : RejectWith(c, r)
    \/ \E c \in driver.cells, fg \in PassHandlers : Then(c, fg[1], fg[2])
    \/ RunTimer

SpecPass == Init /\ [][NextPass]_vars

-----------------------------------------------------------------------------
(* SpecRoot: the implementation of src/index.js, on deferred cells settled *)
(* with plain values and chained with then.                                *)

Root_CallResolve(c, value) ==
    /\ c \in driver.fns
    /\ Commit(Root_resolve(Machine, c, value), [driver EXCEPT !.late = LateCall(c)])

Root_CallReject(c, reason) ==
    /\ c \in driver.fns
    /\ Commit(Root_reject(Machine, c, reason), [driver EXCEPT !.late = LateCall(c)])

Root_Then(c, onfulfill, onreject) ==
    /\ c \in driver.cells
    /\ CommitIfFits(Root_then(Machine, c, onfulfill, onreject),
                    [driver EXCEPT !.cells = @ \cup {NewId(Machine)}])

Root_RunTimer ==
    /\ timers # << >>
    /\ Commit(Root_runObserver([Machine EXCEPT !.tm = Tail(timers)], Head(timers)), driver)

RootHandlers ==
    {<<Return(Plain(3)), Return(Plain(4))>>, <<Throw(Plain(5)), Throw(Plain(6))>>}

NextRoot ==
    \/ Deferred
    \/ \E c \in driver.fns : Root_CallResolve(c, Plain(1))
    \/ \E c \in driver.fns : Root_CallReject(c, Plain(2))
    \/ \E c \in driver.cells, fg \in RootHandlers : Root_Then(c, fg[1], fg[2])
    \/ Root_RunTimer

SpecRoot == Init /\ [][NextRoot]_vars

-----------------------------------------------------------------------------
(* SpecAll, SpecAny, SpecAllSettled: MaxInputs deferred cells, one call of *)
(* the aggregate made at any time on the cells in order, or on the cells   *)
(* followed by a plain value, and the cells settled in any order, cell c   *)
(* with the value or the reason c.                                          *)

\* the state after MaxInputs calls of deferred()
InitAggregate ==
    /\ instancesStatesMap = [c \in 1..MaxInputs |-> DefaultState]
    /\ instancesObservers = [c \in 1..MaxInputs |-> Observers_new]
    /\ timers = << >>
    /\ alreadyCalled = << >>
    /\ arrays = << >>
    /\ handlerLog = << >>
    /\ thenCalls = << >>
    /\ callbackLog = << >>
    /\ uncaught = NoExc
    /\ driver = [cells |-> 1..MaxInputs, fns |-> 1..MaxInputs, selfCalls |-> {}, late |-> {},
                 linked |-> {}, rejects |-> << >>,
                 agg |-> NoAggregate, order |-> << >>, setups |-> << >>,
                 call |-> NoCall, ncalls |-> 0, catches |-> {}, finallies |-> {},
                 adopted |-> {}, overrides |-> << >>, emptyRaces |-> {}]

DeferredInputs == [i \in 1..MaxInputs |-> PromyseRef(i)]
AggregateInputs == {DeferredInputs, Append(DeferredInputs, Plain(9))}

\* history of the aggregate call: the cell it returned, the cells of its inputs after
\* Promyse.resolve, and how many cells the driver had settled before
AggregateRecord(w, kind, els) ==
    [driver EXCEPT !.agg = [cell |-> NewId(w.m), kind |-> kind, inputs |-> w.cells,
                            elements |-> els, at |-> Len(driver.order)]]

\* a = Promyse.all(els)
CallAll(els) ==
    /\ driver.agg.cell = 0
    /\ Commit(Promyse_all(Machine, Iterable(els)),
              AggregateRecord(wrapElements([m |-> Machine, cells |-> << >>], els), "all", els))

\* a = Promyse.any(els)
CallAny(els) ==
    /\ driver.agg.cell = 0
    /\ Commit(Promyse_any(Machine, Iterable(els)),
              AggregateRecord(wrapElements([m |-> Machine, cells |-> << >>], els), "any", els))

\* a = Promyse.allSettled(els)
CallAllSettled(els) ==
    /\ driver.agg.cell = 0
    /\ Commit(Promyse_allSettled(Machine, Iterable(els)),
              AggregateRecord(wrapElements([m |-> Machine, cells |-> << >>], els),
                              "allSettled", els))

\* o[c].resolve(c) on a pending cell, the driver noting the order of its calls
FulfilInput(c) ==
    /\ c \in driver.fns
    /\ ~instancesStatesMap[c].settled
    /\ Commit(resolve(Machine, c, Plain(c)), [driver EXCEPT !.order = Append(@, c)])

\* o[c].reject(c) on a pending cell
RejectInput(c) ==
    /\ c \in driver.fns
    /\ ~instancesStatesMap[c].settled
    /\ Commit(reject(Machine, c, Plain(c)), [driver EXCEPT !.order = Append(@, c)])

NextAll ==
    \/ \E els \in AggregateInputs : CallAll(els)
    \/ \E c \in driver.fns : FulfilInput(c)
    \/ \E c \in driver.fns : RejectInput(c)
    \/ RunTimer

SpecAll == InitAggregate /\ [][NextAll]_vars

NextAny ==
    \/ \E els \in AggregateInputs : CallAny(els)
    \/ \E c \in driver.fns : FulfilInput(c)
    \/ \E c \in driver.fns : RejectInput(c)
    \/ RunTimer

SpecAny == InitAggregate /\ [][NextAny]_vars

NextAllSettled ==
    \/ \E els \in AggregateInputs : CallAllSettled(els)
    \/ \E c \in driver.fns : FulfilInput(c)
    \/ \E c \in driver.fns : RejectInput(c)
    \/ RunTimer

\* setTimeout runs every callback it was given
SpecAllSettled == InitAggregate /\ [][NextAllSettled]_vars /\ WF_vars(RunTimer)

-----------------------------------------------------------------------------
(* SpecRace: as SpecAll, the aggregate being race.                         *)

\* a = Promyse.race(els)
CallRace(els) ==
    /\ driver.agg.cell = 0
    /\ Commit(Promyse_race(Machine, Iterable(els)),
              AggregateRecord(wrapElements([m |-> Machine, cells |-> << >>], els), "race", els))

NextRace ==
    \/ \E els \in AggregateInputs : CallRace(els)
    \/ \E c \in driver.fns : FulfilInput(c)
    \/ \E c \in driver.fns : RejectInput(c)
    \/ RunTimer

SpecRace == InitAggregate /\ [][NextRace]_vars

-----------------------------------------------------------------------------
(* SpecStatic: the static methods called on empty and one-element          *)
(* iterables, on values that are not iterable, on plain values, thenables  *)
(* and deferred cells, pending and settled.                                *)

\* the driver notes the static call it made and the cell it got back
StaticCommit(r, op, arg, ret) ==
    /\ driver.ncalls < MaxCalls
    /\ CommitIfFits(r, [driver EXCEPT !.call = [op |-> op, arg |-> arg, ret |-> ret],
                                      !.ncalls = @ + 1,
                                      !.cells = IF ret = 0 THEN @ ELSE @ \cup {ret},
                                      !.emptyRaces =
                                          IF op = "race" /\ arg = Iterable(<< >>)
                                          THEN @ \cup {ret} ELSE @])

\* the cell an aggregate call on arg returns: the one made after the map over
\* Promyse.resolve, none when the call throws
AggregateCell(arg) ==
    IF arg.t # "iterable" THEN 0
    ELSE NewId(wrapElements([m |-> Machine, cells |-> << >>], arg.v).m)

StaticAll(arg) == StaticCommit(Promyse_all(Machine, arg), "all", arg, AggregateCell(arg))
StaticAny(arg) == StaticCommit(Promyse_any(Machine, arg), "any", arg, AggregateCell(arg))
StaticAllSettled(arg) ==
    StaticCommit(Promyse_allSettled(Machine, arg), "allSettled", arg, AggregateCell(arg))
StaticRace(arg) == StaticCommit(Promyse_race(Machine, arg), "race", arg, AggregateCell(arg))

\* p = Promyse.resolve(value), also resolved(value) of the test adapter
StaticResolve(value) ==
    StaticCommit(Promyse_resolve(Machine, value).m, "resolve", value,
                 Promyse_resolve(Machine, value).ret)

\* p = Promyse.reject(value), also rejected(value) of the test adapter
StaticReject(value) ==
    StaticCommit(Promyse_reject(Machine, value).m, "reject", value,
                 Promyse_reject(Machine, value).ret)

StaticArgs ==
    {Iterable(<< >>), Iterable(<<Plain(1)>>), Undefined}
        \cup {Iterable(<<PromyseRef(c)>>) : c \in driver.cells}

StaticValues == {Plain(1), Thenable(1)} \cup {PromyseRef(c) : c \in driver.cells}

NextStatic ==
    \/ Deferred
    \/ \E c \in driver.fns : CallResolve(c, Plain(1))
    \/ \E c \in driver.fns : CallReject(c, Plain(2))
    \/ \E arg \in StaticArgs : StaticAll(arg)
    \/ \E arg \in StaticArgs : StaticAny(arg)
    \/ \E arg \in StaticArgs : StaticAllSettled(arg)
    \/ \E arg \in StaticArgs : StaticRace(arg)
    \/ \E v \in StaticValues : StaticResolve(v)
    \/ \E v \in StaticValues : StaticReject(v)
    \/ RunTimer

SpecStatic == Init /\ [][NextStatic]_vars

-----------------------------------------------------------------------------
(* SpecCatch: catch(h) and then(undefined, h) called on the same deferred  *)
(* cells, before and after the driver settles them.                        *)

\* q = p.catch(onreject)
Catch(c, onreject) ==
    /\ c \in driver.cells
    /\ CommitIfFits(Promyse_catch(Machine, c, onreject),
                    [driver EXCEPT !.cells = @ \cup {NewId(Machine)},
                                   !.catches = @ \cup {[recv |-> c, cell |-> NewId(Machine),
                                                        h |-> onreject]}])

CatchHandlers == {Return(Plain(3)), Throw(Plain(4)), ReturnSelf, NotFunction}

NextCatch ==
    \/ Deferred
    \/ \E c \in driver.fns : CallResolve(c, Plain(1))
    \/ \E c \in driver.fns : CallReject(c, Plain(2))
    \/ \E c \in driver.cells, h \in CatchHandlers : Catch(c, h)
    \/ \E c \in driver.cells, h \in CatchHandlers : Then(c, NotFunction, h)
    \/ RunTimer

SpecCatch == Init /\ [][NextCatch]_vars

-----------------------------------------------------------------------------
(* SpecFinally: finally called on deferred cells, before and after the    *)
(* driver settles them, onfinally throwing, returning a plain value, a     *)
(* deferred cell or a thenable, or not being a function.                   *)

\* q = p.finally(onfinally)
Finally(c, onfinally) ==
    /\ c \in driver.cells
    /\ CommitIfFits(Promyse_finally(Machine, c, onfinally),
                    [driver EXCEPT !.cells = @ \cup {NewId(Machine)},
                                   !.finallies = @ \cup {[recv |-> c, cell |-> NewId(Machine),
                                                          h |-> onfinally]}])

\* the thenables onfinally returns: those whose then uses only the callbacks it is given
FinallyThenables == {1, 2, 3, 4, 5, 6, 7, 8, 13}

FinallyHandlers ==
    {Return(Plain(3)), Throw(Plain(4)), NotFunction}
        \cup {Return(Thenable(k)) : k \in FinallyThenables}
        \cup {Return(PromyseRef(c)) : c \in driver.fns}

NextFinally ==
    \/ Deferred
    \/ \E c \in driver.fns : FulfilInput(c)
    \/ \E c \in driver.fns : RejectInput(c)
    \/ \E c \in driver.fns, h \in FinallyHandlers : Finally(c, h)
    \/ RunTimer

SpecFinally == Init /\ [][NextFinally]_vars

-----------------------------------------------------------------------------
(* SpecRaise: every call the driver can make - the constructor, then,      *)
(* catch, finally, and the four aggregates on arguments that are and are   *)
(* not iterable - on cells pending, fulfilled and rejected.                *)

RaiseArgs == {Undefined, Iterable(<<Plain(1)>>)}

RaiseHandlers == {Throw(Plain(4))}

\* the setups: one that does nothing, one that throws, one that calls resolve
RaiseScripts == {<< >>, <<Op("throw", Plain(3))>>, <<Op("resolve", Plain(1))>>}

NextRaise ==
    \/ \E script \in RaiseScripts : NewPromyse(script)
    \/ \E arg \in RaiseArgs : StaticAll(arg)
    \/ \E arg \in RaiseArgs : StaticAny(arg)
    \/ \E arg \in RaiseArgs : StaticAllSettled(arg)
    \/ \E arg \in RaiseArgs : StaticRace(arg)
    \/ \E c \in driver.cells, h \in RaiseHandlers : Then(c, h, h)
    \/ \E c \in driver.cells, h \in RaiseHandlers : Catch(c, h)
    \/ \E c \in driver.cells, h \in RaiseHandlers : Finally(c, h)
    \/ RunTimer

SpecRaise == Init /\ [][NextRaise]_vars

-----------------------------------------------------------------------------
(* SpecNoLock: deferred cells resolved with other pending deferred cells,  *)
(* then fulfilled and rejected by the driver in any order.                 *)

\* o[c].resolve(o[inner].promise), both cells pending: the driver notes the pair
Adopt(c, inner) ==
    /\ c \in driver.fns /\ inner \in driver.fns /\ c # inner
    /\ ~instancesStatesMap[c].settled /\ ~instancesStatesMap[inner].settled
    /\ CommitIfFits(resolve(Machine, c, PromyseRef(inner)),
                    [driver EXCEPT !.adopted = @ \cup {[cell |-> c, inner |-> inner]}])

\* history of a direct call on the pending cell c: when c was resolved with a cell that
\* is still pending, the State the call is to give c; the order of the calls
DirectCall(c, state) ==
    [driver EXCEPT !.order = Append(@, c),
                   !.overrides =
                       IF \E a \in driver.adopted :
                              a.cell = c /\ ~instancesStatesMap[a.inner].settled
                       THEN Extend(@, c, state) ELSE @]

\* o[c].resolve(c) on a pending cell
FulfilDirect(c) ==
    /\ c \in driver.fns
    /\ ~instancesStatesMap[c].settled
    /\ Commit(resolve(Machine, c, Plain(c)), DirectCall(c, State(FULFILLED, Plain(c), TRUE)))

\* o[c].reject(c) on a pending cell
RejectDirect(c) ==
    /\ c \in driver.fns
    /\ ~instancesStatesMap[c].settled
    /\ Commit(reject(Machine, c, Plain(c)), DirectCall(c, State(REJECTED, Plain(c), TRUE)))

NextNoLock ==
    \/ Deferred
    \/ \E c, inner \in driver.fns : Adopt(c, inner)
    \/ \E c \in driver.fns : FulfilDirect(c)
    \/ \E c \in driver.fns : RejectDirect(c)
    \/ RunTimer

SpecNoLock == Init /\ [][NextNoLock]_vars

-----------------------------------------------------------------------------
(* SpecAdopt: pending deferred cells resolved with deferred cells that are *)
(* pending, fulfilled or rejected, and the cells settled by the driver.    *)

\* o[c].resolve(o[inner].promise) on a pending cell c, whatever the status of inner
AdoptAny(c, inner) ==
    /\ c \in driver.fns /\ inner \in driver.fns /\ c # inner
    /\ ~instancesStatesMap[c].settled
    /\ CommitIfFits(resolve(Machine, c, PromyseRef(inner)),
                    [driver EXCEPT !.adopted = @ \cup {[cell |-> c, inner |-> inner]}])

NextAdopt ==
    \/ Deferred
    \/ \E c, inner \in driver.fns : AdoptAny(c, inner)
    \/ \E c \in driver.fns : FulfilDirect(c)
    \/ \E c \in driver.fns : RejectDirect(c)
    \/ RunTimer

SpecAdopt == Init /\ [][NextAdopt]_vars

-----------------------------------------------------------------------------
(* The claims. *)

Settled(c) == instancesStatesMap[c].settled
ThenCells == {thenCalls[k].cell : k \in 1..Len(thenCalls)}
\* the place of the then call that returned cell, among all then calls
ThenIndex(cell) == CHOOSE k \in 1..Len(thenCalls) : thenCalls[k].cell = cell
\* the invocations logged by the step
NewInvocations == {handlerLog'[i] : i \in (Len(handlerLog) + 1)..Len(handlerLog')}
CallerHandler(h) == h.h \in {"return", "throw", "returnSelf", "identity", "thrower"}

\* C1: settle-once.  A step never changes the State of a cell that is settled: once
\* Fulfilled or Rejected, status and payload stay, whatever resolveFn or rejectFn is
\* called with afterwards.
C1_SettleOnce ==
    [][\A c \in DOMAIN instancesStatesMap :
          Settled(c) => instancesStatesMap'[c] = instancesStatesMap[c]]_vars

\* a settled cell whose resolveFn or rejectFn was called again
C1_Witness == \E c \in driver.late : Settled(c)

\* C2: a handler given to then is invoked only in a turn after the then call returned
\* and after the call that settled the receiver returned: when a step invokes a
\* handler, the then call was made and the receiver was settled before the step.
C2_NeverSynchronous ==
    [][\A e \in NewInvocations :
          /\ e.cell \in ThenCells
          /\ e.recv \in DOMAIN instancesStatesMap
          /\ Settled(e.recv)]_vars

\* handlers have run for a then call made after and for one made before settlement
C2_Witness ==
    \E i, j \in 1..Len(handlerLog) :
        /\ CallerHandler(handlerLog[i].h) /\ CallerHandler(handlerLog[j].h)
        /\ thenCalls[ThenIndex(handlerLog[i].cell)].settled
        /\ ~thenCalls[ThenIndex(handlerLog[j].cell)].settled

\* C3: FIFO per cell.  The handlers attached to one cell are invoked in the order of
\* the then calls that attached them.
C3_Fifo ==
    \A i, j \in 1..Len(handlerLog) :
        (i < j /\ handlerLog[i].recv = handlerLog[j].recv)
            => ThenIndex(handlerLog[i].cell) < ThenIndex(handlerLog[j].cell)

\* two handlers of one cell have run, one attached before it settled, one after
C3_Witness ==
    \E i, j \in 1..Len(handlerLog) :
        /\ i < j
        /\ handlerLog[i].recv = handlerLog[j].recv
        /\ ~thenCalls[ThenIndex(handlerLog[i].cell)].settled
        /\ thenCalls[ThenIndex(handlerLog[j].cell)].settled

\* C4: at most one handler invocation results from one then call.
C4_AtMostOnce ==
    \A i, j \in 1..Len(handlerLog) :
        handlerLog[i].cell = handlerLog[j].cell => i = j

\* a handler has run on a receiver whose resolveFn or rejectFn was called again
\* after it had settled
C4_Witness ==
    \E i \in 1..Len(handlerLog) :
        /\ handlerLog[i].recv \in driver.late
        /\ ~thenCalls[ThenIndex(handlerLog[i].cell)].settled


\* what the first op of a thenable's then decides, when it is a call with a plain value
FirstCallOutcome(k) ==
    LET first == Head(Thenables[k].sync)
    IN State(IF first.op = "resolvePromise" THEN FULFILLED ELSE REJECTED, first.arg, TRUE)

\* the cell returned by the then call of invocation e ends as the handler's result says
HandlerResult(e) ==
    LET new == instancesStatesMap[e.cell]
        x == e.h.a
    IN CASE e.h.h = "throw" -> new = State(REJECTED, x, TRUE)
         [] e.h.h = "returnSelf" -> new = State(REJECTED, SelfTypeError, TRUE)
         [] e.h.h = "return" /\ x.t = "plain" -> new = State(FULFILLED, x, TRUE)
         [] e.h.h = "return" /\ x.t = "thenable" -> new = FirstCallOutcome(x.v)
         [] e.h.h = "return" /\ x.t = "Promyse" ->
                /\ \E k \in 1..Len(thenCalls) :
                       /\ thenCalls[k].recv = x.v
                       /\ thenCalls[k].onfulfill = AdoptResolve(e.cell)
                       /\ thenCalls[k].onreject = AdoptReject(e.cell)
                /\ new.settled => (Settled(x.v) /\ new = instancesStatesMap[x.v])
         [] OTHER -> TRUE

\* C5: for newCell = cell.then(f, g), once the applicable handler has run: a returned
\* plain value fulfils newCell, on the fulfilled and on the rejected path alike; a
\* returned cell or thenable is adopted (newCell settles only as that cell has, or as
\* the thenable's first call says); a thrown e rejects newCell with e; and no turn
\* raises an exception to its caller.
C5_HandlerResultSettlesNewCell ==
    /\ \A i \in 1..Len(handlerLog) : HandlerResult(handlerLog[i])
    /\ uncaught = NoExc

\* a value returned on the rejected path has fulfilled its cell, a throw has rejected
\* its cell, and a returned cell has been adopted and has settled the chained cell
C5_Witness ==
    /\ \E i \in 1..Len(handlerLog) :
           /\ handlerLog[i].which = "onreject" /\ handlerLog[i].h = Return(Plain(1))
           /\ instancesStatesMap[handlerLog[i].cell].state = FULFILLED
    /\ \E i \in 1..Len(handlerLog) :
           /\ handlerLog[i].h.h = "return" /\ handlerLog[i].h.a.t = "Promyse"
           /\ Settled(handlerLog[i].cell)

\* C7 as claimed: after resolveFn of a pending cell is called with that cell, from the
\* driver or by a handler returning its own chained cell, the cell is Rejected with
\* the TypeError.
C7_SelfReferenceRejects ==
    /\ \A c \in driver.selfCalls :
           instancesStatesMap[c] = State(REJECTED, SelfTypeError, TRUE)
    /\ \A i \in 1..Len(handlerLog) :
           handlerLog[i].h.h = "returnSelf" =>
               instancesStatesMap[handlerLog[i].cell] = State(REJECTED, SelfTypeError, TRUE)

\* the chain 1 .. MaxDepth is complete: every cell but the last was resolved with the next
AllLinked == driver.linked = 1..(MaxDepth - 1)

\* the outer cell of the chain, once settled, holds what the chain decided
Unwrapped ==
    LET outer == instancesStatesMap[1]
    IN outer.settled =>
           /\ outer.value.t = "plain"
           /\ outer.state = FULFILLED =>
                  \A c \in 1..MaxDepth : instancesStatesMap[c] = State(FULFILLED, Plain(1), TRUE)
           /\ outer.state = REJECTED =>
                  \E k \in 2..MaxDepth : \A c \in 1..k :
                      instancesStatesMap[c] = State(REJECTED, Plain(k), TRUE)

\* C6: unwrapping.  In a chain of cells each resolved with the next, the outer cell
\* settles only with a payload that is not a cell: fulfilled with the innermost cell's
\* plain value, every cell of the chain then being fulfilled with it, or rejected with
\* the reason of the cell that rejected, which every cell from the outer one to that
\* cell then holds.  And once the chain is complete and the innermost cell has settled,
\* the outer cell eventually settles, the timer queue running every callback.
C6_Unwrapping ==
    /\ []Unwrapped
    /\ (AllLinked /\ Settled(MaxDepth)) ~> Settled(1)

\* the outer cell of a complete chain is fulfilled
C6_Witness ==
    /\ AllLinked
    /\ instancesStatesMap[1].state = FULFILLED
    /\ Len(handlerLog) >= MaxDepth - 1

IsCallback(e) == e.op \in {"resolvePromise", "rejectPromise"}
\* the calls of the callbacks of the same then.call made before entry i of the history
EarlierCalls(i) ==
    {j \in 1..(i - 1) : IsCallback(callbackLog[j]) /\ callbackLog[j].g = callbackLog[i].g}

\* the outcome a call of a callback with a plain argument determines
Determined(e) ==
    CASE e.op = "rejectPromise" ->
             instancesStatesMap[e.cell] = State(REJECTED, e.arg, TRUE)
      [] e.op = "resolvePromise" /\ e.arg.t = "plain" ->
             instancesStatesMap[e.cell] = State(FULFILLED, e.arg, TRUE)
      [] OTHER -> TRUE

\* C8 as claimed: of the calls a thenable makes of the two callbacks of one then.call,
\* only the first has an effect: made on a pending cell it determines the cell's
\* outcome, and every later call changes nothing.
C8_FirstCallWins ==
    \A i \in 1..Len(callbackLog) :
        IsCallback(callbackLog[i]) =>
            IF EarlierCalls(i) = {}
            THEN ~callbackLog[i].settled => Determined(callbackLog[i])
            ELSE ~callbackLog[i].effect

\* C9 as claimed: when reading then or calling it throws e, the cell becomes Rejected
\* with e if no callback of that then.call was called before, the throw changes nothing
\* if one was, and no exception reaches the caller of resolveFn.
C9_ThrowOfThen ==
    /\ uncaught = NoExc
    /\ \A i \in 1..Len(callbackLog) :
           callbackLog[i].op \in {"getThrew", "thenThrew"} =>
               IF EarlierCalls(i) = {}
               THEN ~callbackLog[i].settled =>
                        instancesStatesMap[callbackLog[i].cell]
                            = State(REJECTED, callbackLog[i].arg, TRUE)
               ELSE ~callbackLog[i].effect

\* C10: new Promyse(setup) raises nothing; when the setup threw e with the cell not
\* settled the cell is Rejected with e, from the constructor's return on, and when it
\* threw with the cell settled the cell keeps the State it had at the throw.
C10_SetupThrow ==
    /\ uncaught = NoExc
    /\ \A c \in DOMAIN driver.setups :
           driver.setups[c].threw # NoExc =>
               IF driver.setups[c].atThrow.settled
               THEN instancesStatesMap[c] = driver.setups[c].atThrow
               ELSE instancesStatesMap[c] = State(REJECTED, driver.setups[c].threw, TRUE)

\* one setup threw with its cell pending, one with its cell fulfilled, and one after
\* resolving its cell with a cell that has settled since
C10_Witness ==
    /\ \E c \in DOMAIN driver.setups :
           /\ driver.setups[c].threw # NoExc
           /\ ~driver.setups[c].atThrow.settled
           /\ \E k \in 1..Len(handlerLog) : handlerLog[k].h = AdoptResolve(c)
    /\ \E c \in DOMAIN driver.setups :
           /\ driver.setups[c].threw # NoExc
           /\ driver.setups[c].atThrow.state = FULFILLED
\* C11: rejectFn on a pending cell settles it Rejected with the very reason given, a
\* cell or a thenable included: no then call adopts the reason's outcome into the cell
\* and no thenable's then is called.
C11_RejectKeepsReason ==
    /\ \A c \in DOMAIN driver.rejects :
           /\ instancesStatesMap[c] = State(REJECTED, driver.rejects[c], TRUE)
           /\ \A k \in 1..Len(thenCalls) : thenCalls[k].onreject # AdoptReject(c)
    /\ alreadyCalled = << >>

\* cells were rejected with a thenable, with a fulfilled cell and with themselves, and
\* a handler has run since
C11_Witness ==
    /\ \E c \in DOMAIN driver.rejects : driver.rejects[c].t = "thenable"
    /\ \E c \in DOMAIN driver.rejects :
           /\ driver.rejects[c].t = "Promyse"
           /\ instancesStatesMap[driver.rejects[c].v].state = FULFILLED
    /\ handlerLog # << >>

\* the then call k has had its handler run
HandlerRan(k) == \E i \in 1..Len(handlerLog) : handlerLog[i].cell = thenCalls[k].cell

\* C13: for cell.then(a, b), once the handler has run: with a not a function and the
\* receiver Fulfilled with v the new cell is Fulfilled with v, with b not a function
\* and the receiver Rejected with r the new cell is Rejected with r.
C13_DefaultsPassThrough ==
    \A k \in 1..Len(thenCalls) :
        LET call == thenCalls[k]
            receiver == instancesStatesMap[call.recv]
        IN HandlerRan(k) =>
               /\ (call.f = NotFunction /\ receiver.state = FULFILLED)
                      => instancesStatesMap[call.cell] = receiver
               /\ (call.g = NotFunction /\ receiver.state = REJECTED)
                      => instancesStatesMap[call.cell] = receiver

\* a reason that is a cell has passed through a missing onreject, the then call
\* having been made before the receiver was rejected
C13_Witness ==
    \E k \in 1..Len(thenCalls) :
        /\ HandlerRan(k) /\ thenCalls[k].g = NotFunction /\ ~thenCalls[k].settled
        /\ instancesStatesMap[thenCalls[k].recv].state = REJECTED
        /\ instancesStatesMap[thenCalls[k].recv].value.t = "Promyse"
\* C12 as claimed: whenever a handler given to then is applied, in either branch of
\* then, it is the onRejected of that then call applied to the reason when the
\* receiver is Rejected, and the onFulfilled applied to the value when it is Fulfilled.
C12_HandlerPairing ==
    \A i \in 1..Len(handlerLog) :
        LET e == handlerLog[i]
            call == thenCalls[ThenIndex(e.cell)]
            receiver == instancesStatesMap[e.recv]
        IN /\ e.arg = receiver.value
           /\ receiver.state = REJECTED => e.h = call.onreject
           /\ receiver.state = FULFILLED => e.h = call.onfulfill
\* the cell the aggregate call returned, and the cell of its input i
Aggregate ==
    IF driver.agg.cell = 0 THEN DefaultState ELSE instancesStatesMap[driver.agg.cell]
Input(i) == instancesStatesMap[driver.agg.inputs[i]]
InputIndexes == 1..Len(driver.agg.inputs)
\* the array held by the aggregate cell is complete and holds the inputs' payloads
PayloadOfInputs ==
    /\ Aggregate.value = ArrayRef(driver.agg.cell)
    /\ DOMAIN arrays[driver.agg.cell] = InputIndexes
    /\ \A i \in InputIndexes : arrays[driver.agg.cell][i] = Input(i).value
\* the aggregate call was made before any input had settled
CalledFirst ==
    /\ driver.agg.at = 0
    /\ \A i \in InputIndexes : driver.agg.elements[i].t = "Promyse"
\* the payload of the first cell the driver settled that is in the given state
FirstPayload(state) ==
    LET k == CHOOSE k \in 1..Len(driver.order) :
                 /\ instancesStatesMap[driver.order[k]].state = state
                 /\ \A j \in 1..(k - 1) : instancesStatesMap[driver.order[j]].state # state
    IN instancesStatesMap[driver.order[k]].value

\* C14 as claimed: whenever the cell returned by all is Fulfilled, every input is
\* Fulfilled and the payload is the array of the inputs' values, in index order.
C14_AllFulfilledPayload ==
    (driver.agg.kind = "all" /\ Aggregate.state = FULFILLED) =>
        /\ \A i \in InputIndexes : Input(i).state = FULFILLED
        /\ PayloadOfInputs

\* C15 as claimed: the cell returned by all is never Fulfilled when an input is
\* Rejected, and once an input is Rejected and every callback has run it is Rejected
\* with the reason of a rejected input, the first one rejected when all was called
\* before any input settled.
C15_AllRejectsWithFirstReason ==
    (driver.agg.kind = "all" /\ \E i \in InputIndexes : Input(i).state = REJECTED) =>
        /\ Aggregate.state # FULFILLED
        /\ timers = << >> =>
               /\ Aggregate.state = REJECTED
               /\ \E i \in InputIndexes : Input(i) = Aggregate
               /\ CalledFirst => Aggregate.value = FirstPayload(REJECTED)

\* C16 as claimed: once an input of any is Fulfilled and every callback has run, the
\* cell returned by any is Fulfilled with the value of a fulfilled input, the first
\* one fulfilled when any was called before any input settled.
C16_AnyFulfilsWithFirst ==
    (/\ driver.agg.kind = "any"
     /\ \E i \in InputIndexes : Input(i).state = FULFILLED
     /\ timers = << >>) =>
        /\ Aggregate.state = FULFILLED
        /\ \E i \in InputIndexes : Input(i) = Aggregate
        /\ CalledFirst => Aggregate.value = FirstPayload(FULFILLED)

\* C17 as claimed: whenever the cell returned by any is Rejected, every input is
\* Rejected and the reason is the array of the inputs' reasons, in index order.
C17_AnyRejectedPayload ==
    (driver.agg.kind = "any" /\ Aggregate.state = REJECTED) =>
        /\ \A i \in InputIndexes : Input(i).state = REJECTED
        /\ PayloadOfInputs

\* C18 as claimed: the cell returned by allSettled is never Fulfilled while an input
\* is Pending.
C18_AllSettledWaits ==
    (driver.agg.kind = "allSettled" /\ Aggregate.state = FULFILLED) =>
        \A i \in InputIndexes : Input(i).settled

AllInputsSettled == \A i \in InputIndexes : Input(i).settled

\* C19: the cell returned by allSettled is never Rejected, and once every input has
\* settled it eventually is Fulfilled, the timer queue running every callback.
C19_AllSettledNeverRejects ==
    /\ [](driver.agg.kind = "allSettled" => Aggregate.state # REJECTED)
    /\ (driver.agg.kind = "allSettled" /\ AllInputsSettled)
           ~> (Aggregate.state = FULFILLED)

\* allSettled called on pending inputs is Fulfilled, every input settled, one Rejected
C19_Witness ==
    /\ driver.agg.kind = "allSettled" /\ driver.agg.at = 0
    /\ Aggregate.state = FULFILLED
    /\ AllInputsSettled
    /\ \E i \in InputIndexes : Input(i).state = REJECTED

\* { status: 'fulfilled', value } or { status: 'rejected', reason }
Descriptor(tuple) == [t |-> "descriptor", status |-> tuple.state, v |-> tuple.value]

\* C20 as claimed: once every input has settled and every callback has run, element i
\* of the array allSettled fulfilled with is the descriptor of input i: its status and
\* its value or reason.
C20_AllSettledDescriptors ==
    (/\ driver.agg.kind = "allSettled"
     /\ Aggregate.state = FULFILLED
     /\ AllInputsSettled
     /\ timers = << >>) =>
        /\ Aggregate.value = ArrayRef(driver.agg.cell)
        /\ DOMAIN arrays[driver.agg.cell] = InputIndexes
        /\ \A i \in InputIndexes : arrays[driver.agg.cell][i] = Descriptor(Input(i))
StaticStep == driver'.ncalls = driver.ncalls + 1

\* C22: a call of all, any or allSettled on an empty iterable returns a new cell that
\* is, in the state the call leaves, Fulfilled with an empty array, and the call puts
\* no callback on the timer queue.
C22_EmptyInput ==
    [][(StaticStep /\ driver'.call.op \in {"all", "any", "allSettled"}
                   /\ driver'.call.arg = Iterable(<< >>))
        => /\ driver'.call.ret \notin DOMAIN instancesStatesMap
           /\ instancesStatesMap'[driver'.call.ret] =
                  State(FULFILLED, ArrayRef(driver'.call.ret), TRUE)
           /\ arrays'[driver'.call.ret] = Array_new
           /\ timers' = timers]_vars

\* allSettled([]) has just returned a cell Fulfilled with an empty array
C22_Witness ==
    /\ driver.call.op = "allSettled" /\ driver.call.arg = Iterable(<< >>)
    /\ instancesStatesMap[driver.call.ret].state = FULFILLED
    /\ arrays[instancesStatesMap[driver.call.ret].value.v] = << >>

\* C28: Promyse.resolve(c) on a cell c returns c, makes no cell and leaves every State,
\* observer list and the timer queue as they were; Promyse.resolve(v) on a plain v
\* returns a new cell that is Fulfilled with v in the state the call leaves.
C28_StaticResolve ==
    [][(StaticStep /\ driver'.call.op = "resolve")
        => /\ driver'.call.arg.t = "Promyse"
                => /\ driver'.call.ret = driver'.call.arg.v
                   /\ instancesStatesMap' = instancesStatesMap
                   /\ instancesObservers' = instancesObservers
                   /\ timers' = timers
           /\ driver'.call.arg.t = "plain"
                => /\ driver'.call.ret \notin DOMAIN instancesStatesMap
                   /\ DOMAIN instancesStatesMap' = DOMAIN instancesStatesMap \cup {driver'.call.ret}
                   /\ instancesStatesMap'[driver'.call.ret] =
                          State(FULFILLED, driver'.call.arg, TRUE)]_vars

\* Promyse.resolve has just returned the pending cell it was given
C28_Witness ==
    /\ driver.call.op = "resolve" /\ driver.call.arg.t = "Promyse"
    /\ driver.call.ret = driver.call.arg.v
    /\ ~instancesStatesMap[driver.call.ret].settled

\* Promyse.resolve has just returned a new cell Fulfilled with the plain value
C28_WitnessPlain ==
    /\ driver.call.op = "resolve" /\ driver.call.arg = Plain(1)
    /\ instancesStatesMap[driver.call.ret] = State(FULFILLED, Plain(1), TRUE)

\* C29: Promyse.reject(reason) returns a cell that is Rejected with reason in the state
\* the call leaves, whatever reason is, a cell of any status included.
C29_StaticReject ==
    [][(StaticStep /\ driver'.call.op = "reject")
        => instancesStatesMap'[driver'.call.ret] = State(REJECTED, driver'.call.arg, TRUE)]_vars

\* C29 for reasons that are not cells: the part of C29 the code keeps
C29_StaticRejectOfNonCells ==
    [][(StaticStep /\ driver'.call.op = "reject" /\ driver'.call.arg.t # "Promyse")
        => instancesStatesMap'[driver'.call.ret] = State(REJECTED, driver'.call.arg, TRUE)]_vars
\* k is a call of catch the driver made and thenCalls[j] a call of then(undefined, h)
\* on the same receiver and with the same h
SideBySide(k, j) ==
    /\ thenCalls[j].f = NotFunction
    /\ thenCalls[j].cell \notin {x.cell : x \in driver.catches}
    /\ k.recv = thenCalls[j].recv
    /\ k.h = thenCalls[j].g

\* C27: the cell of catch(h) and the cell of then(undefined, h) on the same receiver
\* hold the same State once both are settled, and are both settled or both pending
\* when every callback has run; on a Fulfilled receiver the cell of catch takes the
\* receiver's State and h is never invoked for it.
C27_CatchIsThen ==
    /\ \A k \in driver.catches : \A j \in DOMAIN thenCalls :
           SideBySide(k, j) =>
               /\ (instancesStatesMap[k.cell].settled
                      /\ instancesStatesMap[thenCalls[j].cell].settled)
                    => instancesStatesMap[k.cell] = instancesStatesMap[thenCalls[j].cell]
               /\ timers = << >>
                    => instancesStatesMap[k.cell].settled =
                           instancesStatesMap[thenCalls[j].cell].settled
    /\ \A k \in driver.catches :
           instancesStatesMap[k.recv].state = FULFILLED
               => /\ \A n \in DOMAIN handlerLog :
                         ~(handlerLog[n].cell = k.cell /\ handlerLog[n].h = k.h
                               /\ isFunction(k.h))
                  /\ instancesStatesMap[k.cell].settled
                        => instancesStatesMap[k.cell] = instancesStatesMap[k.recv]
                  /\ timers = << >> => instancesStatesMap[k.cell].settled

\* catch(h) and then(undefined, h) were called on a pending cell later Rejected, h
\* returning a value, and both cells are Fulfilled with it
C27_Witness ==
    \E k \in driver.catches : \E j \in DOMAIN thenCalls :
        /\ SideBySide(k, j) /\ k.h = Return(Plain(3))
        /\ ~thenCalls[j].settled
        /\ instancesStatesMap[k.recv].state = REJECTED
        /\ instancesStatesMap[k.cell] = State(FULFILLED, Plain(3), TRUE)
        /\ instancesStatesMap[thenCalls[j].cell] = State(FULFILLED, Plain(3), TRUE)

\* catch was called on a Fulfilled cell and its cell is Fulfilled with the same value
C27_WitnessFulfilled ==
    \E k \in driver.catches :
        /\ k.h = Return(Plain(3))
        /\ instancesStatesMap[k.cell] = State(FULFILLED, Plain(1), TRUE)
\* what the thenable k does with the callbacks then.call gives it: the first thing its
\* then does decides, a throw of the then getter or of then counting as a rejection
Outcome(k) ==
    IF Thenables[k].getThrows # NoExc THEN [does |-> "rejects", with |-> Thenables[k].getThrows]
    ELSE IF ~Thenables[k].isFn THEN [does |-> "nothing", with |-> Undefined]
    ELSE IF Head(Thenables[k].sync \o Thenables[k].later).op = "resolvePromise"
         THEN [does |-> "fulfils", with |-> Head(Thenables[k].sync \o Thenables[k].later).arg]
    ELSE [does |-> "rejects", with |-> Head(Thenables[k].sync \o Thenables[k].later).arg]

\* what the result of onfinally does, for the call k of finally: it throws or rejects
\* with a reason, it is still pending, or it does neither
OnfinallyOutcome(k) ==
    IF k.h.h = "throw" THEN [does |-> "rejects", with |-> k.h.a]
    ELSE IF k.h.h # "return" THEN [does |-> "nothing", with |-> Undefined]
    ELSE IF k.h.a.t = "Promyse"
         THEN IF instancesStatesMap[k.h.a.v].state = REJECTED
              THEN [does |-> "rejects", with |-> instancesStatesMap[k.h.a.v].value]
              ELSE IF instancesStatesMap[k.h.a.v].state = FULFILLED
                   THEN [does |-> "fulfils", with |-> instancesStatesMap[k.h.a.v].value]
                   ELSE [does |-> "pends", with |-> Undefined]
    ELSE IF k.h.a.t = "thenable" THEN Outcome(k.h.a.v)
    ELSE [does |-> "nothing", with |-> Undefined]

\* the State the cell of the call k of finally is to end with, given the receiver's
FinallyState(k) ==
    IF OnfinallyOutcome(k).does = "rejects"
    THEN State(REJECTED, OnfinallyOutcome(k).with, TRUE)
    ELSE instancesStatesMap[k.recv]

\* the call k of finally has nothing left to wait for
FinallyDone(k) ==
    /\ instancesStatesMap[k.recv].settled
    /\ OnfinallyOutcome(k).does # "pends"
    /\ timers = << >>

\* C24: for a finally call whose receiver is Fulfilled with v, the cell finally returned,
\* once settled, is Rejected with e when onfinally threw e, Rejected with r when
\* onfinally returned a cell or thenable that rejects with r, and Fulfilled with v
\* otherwise; and it is settled once the receiver and a returned cell are settled and
\* every callback has run.
C24_FinallyFulfilled ==
    \A k \in driver.finallies :
        instancesStatesMap[k.recv].state = FULFILLED
            => /\ (instancesStatesMap[k.cell].settled /\ OnfinallyOutcome(k).does # "pends")
                    => instancesStatesMap[k.cell] = FinallyState(k)
               /\ FinallyDone(k) => instancesStatesMap[k.cell].settled

\* finally was called on a cell that is Fulfilled, onfinally returned a thenable that
\* rejects and the cell of finally is Rejected with the thenable's reason
C24_Witness ==
    \E k \in driver.finallies :
        /\ instancesStatesMap[k.recv].state = FULFILLED
        /\ k.h = Return(Thenable(2))
        /\ instancesStatesMap[k.cell] = State(REJECTED, Plain(2), TRUE)

\* onfinally returned a cell that fulfilled later, with another value, and the cell of
\* finally is Fulfilled with the receiver's value
C24_WitnessCell ==
    \E k \in driver.finallies :
        /\ instancesStatesMap[k.recv].state = FULFILLED
        /\ k.h.h = "return" /\ k.h.a.t = "Promyse" /\ k.h.a.v # k.recv
        /\ instancesStatesMap[k.h.a.v].state = FULFILLED
        /\ instancesStatesMap[k.cell].state = FULFILLED
        /\ instancesStatesMap[k.cell].value = instancesStatesMap[k.recv].value

\* C25: for a finally call whose receiver is Rejected with r, the cell finally returned,
\* once settled, is Rejected with e when onfinally threw e or returned a cell or
\* thenable that rejects with e, and Rejected with r otherwise; and it is settled once
\* the receiver and a returned cell are settled and every callback has run.
C25_FinallyRejected ==
    \A k \in driver.finallies :
        instancesStatesMap[k.recv].state = REJECTED
            => /\ (instancesStatesMap[k.cell].settled /\ OnfinallyOutcome(k).does # "pends")
                    => instancesStatesMap[k.cell] = FinallyState(k)
               /\ FinallyDone(k) => instancesStatesMap[k.cell].settled

\* the result of onfinally, for the call k of finally, is a thenable that fulfils or an
\* object whose then is not a function
FulfillingThenable(k) ==
    /\ k.h.h = "return" /\ k.h.a.t = "thenable"
    /\ Outcome(k.h.a.v).does # "rejects"

\* C25 without the thenables that fulfil and the objects whose then is not a function
C25_FinallyRejectedOtherwise ==
    \A k \in driver.finallies :
        (instancesStatesMap[k.recv].state = REJECTED /\ ~FulfillingThenable(k))
            => /\ (instancesStatesMap[k.cell].settled /\ OnfinallyOutcome(k).does # "pends")
                    => instancesStatesMap[k.cell] = FinallyState(k)
               /\ FinallyDone(k) => instancesStatesMap[k.cell].settled

\* the invocations of onfinally made for the call k of finally
Invocations(k) ==
    {n \in DOMAIN handlerLog : handlerLog[n].cell = k.cell /\ handlerLog[n].which = "onfinally"}

\* C26: for every finally call, onfinally is invoked at most once, with no argument,
\* and only when the receiver is settled; once the receiver is settled and every
\* callback has run it has been invoked exactly once, whatever the receiver's status
\* and whatever onfinally returns.
C26_OnfinallyOnce ==
    \A k \in driver.finallies :
        /\ Cardinality(Invocations(k)) <= 1
        /\ \A n \in Invocations(k) : handlerLog[n].arg = NoArgument
        /\ Invocations(k) # {} => instancesStatesMap[k.recv].settled
        /\ (instancesStatesMap[k.recv].settled /\ timers = << >>)
               => Cardinality(Invocations(k)) = 1

\* finally was called on a pending cell later Rejected, onfinally returned a thenable
\* and was invoked once, and every callback has run
C26_Witness ==
    /\ timers = << >>
    /\ \E k \in driver.finallies :
           /\ instancesStatesMap[k.recv].state = REJECTED
           /\ k.h = Return(Thenable(1))
           /\ Cardinality(Invocations(k)) = 1

\* onfinally returned a cell, on a Fulfilled receiver, and was invoked once
C26_WitnessCell ==
    /\ timers = << >>
    /\ \E k \in driver.finallies :
           /\ instancesStatesMap[k.recv].state = FULFILLED
           /\ k.h.h = "return" /\ k.h.a.t = "Promyse"
           /\ Cardinality(Invocations(k)) = 1
\* the step is a call of the constructor, of then, catch or finally, or of a static
\* method: every such call is noted by the driver, with the cell it returned
CallStep == driver'.cells # driver.cells \/ StaticStep

\* the step is a call of all, any, allSettled or race on an argument that is not iterable
NotIterableStep ==
    /\ StaticStep
    /\ driver'.call.op \in {"all", "any", "allSettled", "race"}
    /\ driver'.call.arg.t # "iterable"

\* C23: a call of all, any, allSettled or race on an argument that is not iterable
\* raises the TypeError to its caller and leaves every State, every observer list, the
\* arrays and the timer queue as they were; no other call of the constructor, of then,
\* catch, finally or of an aggregate raises anything to its caller.
C23_NotIterableRaises ==
    [][CallStep => /\ NotIterableStep <=> uncaught' # NoExc
                   /\ uncaught' # NoExc
                        => /\ uncaught' = NotIterableTypeError
                           /\ instancesStatesMap' = instancesStatesMap
                           /\ instancesObservers' = instancesObservers
                           /\ arrays' = arrays
                           /\ timers' = timers]_vars

\* race(undefined) has just raised the TypeError, after a call of finally and a
\* construction whose setup threw
C23_Witness ==
    /\ driver.call.op = "race" /\ driver.call.arg = Undefined
    /\ uncaught = NotIterableTypeError
    /\ driver.finallies # {}
    /\ \E c \in DOMAIN driver.setups : driver.setups[c].threw # NoExc
\* the cells c was resolved with
Inners(c) == {a.inner : a \in {b \in driver.adopted : b.cell = c}}

\* the driver fulfilled or rejected c itself
CalledDirectly(c) == \E i \in DOMAIN driver.order : driver.order[i] = c

\* C30: a cell resolved with a pending cell is Pending as long as every cell it was
\* resolved with is pending and the driver made no other call on it; a direct call of
\* rejectFn or resolveFn (with a plain value) made while the inner cell was pending
\* gives the cell its State, which it holds in every later state, whatever the inner
\* cell becomes.
C30_NoLockIn ==
    /\ \A a \in driver.adopted :
           (~CalledDirectly(a.cell) /\ \A i \in Inners(a.cell) : ~instancesStatesMap[i].settled)
               => instancesStatesMap[a.cell] = DefaultState
    /\ \A c \in DOMAIN driver.overrides : instancesStatesMap[c] = driver.overrides[c]

\* a cell resolved with a pending cell was rejected by the driver, the inner cell was
\* fulfilled afterwards, every callback has run and the cell holds the driver's reason
C30_Witness ==
    \E a \in driver.adopted :
        /\ a.cell \in DOMAIN driver.overrides
        /\ driver.overrides[a.cell].state = REJECTED
        /\ instancesStatesMap[a.inner].state = FULFILLED
        /\ timers = << >>
        /\ instancesStatesMap[a.cell] = State(REJECTED, Plain(a.cell), TRUE)

\* the same with a direct resolveFn call and an inner cell rejected afterwards
C30_WitnessResolve ==
    \E a \in driver.adopted :
        /\ a.cell \in DOMAIN driver.overrides
        /\ driver.overrides[a.cell].state = FULFILLED
        /\ instancesStatesMap[a.inner].state = REJECTED
        /\ timers = << >>
        /\ instancesStatesMap[a.cell] = State(FULFILLED, Plain(a.cell), TRUE)
\* C39: a cell race returned for an empty iterable is Pending, with no payload, in the
\* state the call leaves and in every later state, whatever is called on it or with it.
C39_RaceOfNothingPends ==
    \A c \in driver.emptyRaces :
        /\ instancesStatesMap[c] = DefaultState
        /\ c \in DOMAIN instancesObservers

\* race([]) returned a cell, all was then called on an iterable holding that cell, every
\* callback has run and the cell is Pending
C39_Witness ==
    \E c \in driver.emptyRaces :
        /\ driver.call.op = "all" /\ driver.call.arg = Iterable(<<PromyseRef(c)>>)
        /\ timers = << >>
        /\ ~instancesStatesMap[c].settled
\* C38: every cell's State has a state among PENDING, FULFILLED and REJECTED, its
\* settled flag set exactly when the state is not PENDING, and the value undefined when
\* the state is PENDING; and the cell the constructor makes next has the State PENDING,
\* undefined, not settled before its setup runs.
C38_StateConsistent ==
    /\ \A c \in DOMAIN instancesStatesMap :
           /\ instancesStatesMap[c].state \in STATES
           /\ instancesStatesMap[c].settled <=> instancesStatesMap[c].state # PENDING
           /\ instancesStatesMap[c].state = PENDING => instancesStatesMap[c].value = Undefined
    /\ allocate(Machine).st[NewId(Machine)] = State(PENDING, Undefined, FALSE)

\* there are a Pending, a Fulfilled and a Rejected cell
C38_Witness ==
    \A s \in STATES : \E c \in DOMAIN instancesStatesMap : instancesStatesMap[c].state = s
\* C37: a settled cell has no observers collection, and so no queued entry: the step
\* that settled it drained and deleted it, and then adds none on a settled receiver;
\* the cells that have a collection are exactly the Pending ones.
C37_SettledHasNoObservers ==
    \A c \in DOMAIN instancesStatesMap :
        /\ instancesStatesMap[c].settled => c \notin DOMAIN instancesObservers
        /\ ~instancesStatesMap[c].settled => c \in DOMAIN instancesObservers

\* then was called on a cell before it settled and again after it settled
C37_Witness ==
    \E i, j \in DOMAIN thenCalls :
        /\ thenCalls[i].recv = thenCalls[j].recv
        /\ ~thenCalls[i].settled /\ thenCalls[j].settled
        /\ instancesStatesMap[thenCalls[i].recv].settled
        /\ thenCalls[i].recv \notin DOMAIN instancesObservers
\* C34: no cell is Fulfilled with a value that is a cell; a cell held as a value is
\* the reason of a Rejected cell.
C34_NoFulfilledWithCell ==
    \A c \in DOMAIN instancesStatesMap :
        instancesStatesMap[c].value.t = "Promyse" => instancesStatesMap[c].state = REJECTED

\* a handler returned a cell and the cell then returned is Fulfilled, with the plain
\* value of that cell
C34_Witness ==
    \E k \in DOMAIN thenCalls :
        /\ thenCalls[k].f.h = "return" /\ thenCalls[k].f.a.t = "Promyse"
        /\ instancesStatesMap[thenCalls[k].recv].state = FULFILLED
        /\ instancesStatesMap[thenCalls[k].cell].state = FULFILLED
        /\ instancesStatesMap[thenCalls[k].cell].value.t = "plain"

\* a cell is Rejected with a cell as its reason
C34_WitnessRejected ==
    \E c \in DOMAIN instancesStatesMap :
        instancesStatesMap[c].state = REJECTED /\ instancesStatesMap[c].value.t = "Promyse"
\* C33: the cell a then call returned (catch and finally are then calls) has the
\* default Pending State in every state in which its receiver is not settled; when it
\* is settled its receiver is settled and a handler of the call has been invoked.
C33_DerivedWaitsForReceiver ==
    \A k \in DOMAIN thenCalls :
        /\ ~instancesStatesMap[thenCalls[k].recv].settled
               => instancesStatesMap[thenCalls[k].cell] = DefaultState
        /\ instancesStatesMap[thenCalls[k].cell].settled
               => /\ instancesStatesMap[thenCalls[k].recv].settled
                  /\ \E i \in DOMAIN handlerLog :
                         /\ handlerLog[i].cell = thenCalls[k].cell
                         /\ handlerLog[i].recv = thenCalls[k].recv

\* then was called twice on a pending cell, which settled afterwards: the cell of the
\* first call is settled, its handler having run, and the cell of the second is not yet
C33_Witness ==
    \E k, n \in DOMAIN thenCalls :
        /\ thenCalls[k].recv = thenCalls[n].recv
        /\ ~thenCalls[k].settled /\ ~thenCalls[n].settled
        /\ instancesStatesMap[thenCalls[k].cell].settled
        /\ ~instancesStatesMap[thenCalls[n].cell].settled
\* the step is a turn of the timer queue: the driver calls nothing
TimerStep == driver' = driver /\ timers # << >>

\* C32: the step in which resolveFn is called with a cell leaves the resolved cell with
\* the default Pending State, also when the cell given is settled; a cell resolved with
\* cells, and never settled by a direct call, becomes settled only in a turn of the
\* timer queue, taking the State of a cell it was resolved with that was settled
\* before that turn.
C32_AdoptionIsDeferred ==
    [][/\ \A a \in driver'.adopted \ driver.adopted :
              instancesStatesMap'[a.cell] = DefaultState
       /\ \A a \in driver.adopted :
              (/\ ~instancesStatesMap[a.cell].settled
               /\ instancesStatesMap'[a.cell].settled
               /\ \A i \in DOMAIN driver'.order : driver'.order[i] # a.cell)
                  => /\ TimerStep
                     /\ \E b \in driver.adopted :
                            /\ b.cell = a.cell
                            /\ instancesStatesMap[b.inner].settled
                            /\ instancesStatesMap'[a.cell] = instancesStatesMap[b.inner]]_vars

\* a cell was resolved with a cell that was already Rejected, was never settled by a
\* direct call, and has the State of that cell now
C32_Witness ==
    \E a \in driver.adopted :
        /\ \E k \in DOMAIN thenCalls :
               /\ thenCalls[k].recv = a.inner
               /\ thenCalls[k].f = AdoptResolve(a.cell)
               /\ thenCalls[k].settled
        /\ ~CalledDirectly(a.cell)
        /\ instancesStatesMap[a.inner].state = REJECTED
        /\ instancesStatesMap[a.cell] = instancesStatesMap[a.inner]
\* C35: two then calls on the same receiver with the same two handlers, one made before
\* the receiver settled and one made after, return cells that end with the same status
\* and payload.
C35_BranchesAgree ==
    \A k, j \in DOMAIN thenCalls :
        (/\ thenCalls[k].recv = thenCalls[j].recv
         /\ thenCalls[k].f = thenCalls[j].f
         /\ thenCalls[k].g = thenCalls[j].g
         /\ ~thenCalls[k].settled /\ thenCalls[j].settled
         /\ instancesStatesMap[thenCalls[k].cell].settled
         /\ instancesStatesMap[thenCalls[j].cell].settled)
            => instancesStatesMap[thenCalls[k].cell] = instancesStatesMap[thenCalls[j].cell]

\* both calls were made with the same handlers on a receiver that ended Rejected, and
\* both returned cells are settled
C35_Witness ==
    \E k, j \in DOMAIN thenCalls :
        /\ thenCalls[k].recv = thenCalls[j].recv
        /\ thenCalls[k].f = thenCalls[j].f
        /\ thenCalls[k].g = thenCalls[j].g
        /\ ~thenCalls[k].settled /\ thenCalls[j].settled
        /\ instancesStatesMap[thenCalls[k].recv].state = REJECTED
        /\ instancesStatesMap[thenCalls[k].cell].settled
        /\ instancesStatesMap[thenCalls[j].cell].settled

\* the same with a receiver that ended Fulfilled and an onfulfill that is a function
C35_WitnessFulfilled ==
    \E k, j \in DOMAIN thenCalls :
        /\ thenCalls[k].recv = thenCalls[j].recv
        /\ thenCalls[k].f = thenCalls[j].f
        /\ thenCalls[k].g = thenCalls[j].g
        /\ isFunction(thenCalls[k].f)
        /\ ~thenCalls[k].settled /\ thenCalls[j].settled
        /\ instancesStatesMap[thenCalls[k].recv].state = FULFILLED
        /\ instancesStatesMap[thenCalls[k].cell].settled
        /\ instancesStatesMap[thenCalls[j].cell].settled
\* the handler of then call k that applies to the outcome of the receiver was invoked
\* with the receiver's payload
Invoked(k) ==
    /\ k \in DOMAIN thenCalls
    /\ instancesStatesMap[thenCalls[k].recv].settled
    /\ \E i \in DOMAIN handlerLog :
           /\ handlerLog[i].cell = thenCalls[k].cell
           /\ handlerLog[i].recv = thenCalls[k].recv
           /\ handlerLog[i].arg = instancesStatesMap[thenCalls[k].recv].value
           /\ IF instancesStatesMap[thenCalls[k].recv].state = FULFILLED
              THEN handlerLog[i].which = "onfulfill" /\ handlerLog[i].h = thenCalls[k].onfulfill
              ELSE handlerLog[i].which = "onreject" /\ handlerLog[i].h = thenCalls[k].onreject

\* then call k was made and its receiver is settled
Due(k) == k \in DOMAIN thenCalls /\ instancesStatesMap[thenCalls[k].recv].settled

\* every then call whose receiver is settled has had its handler invoked
AllServed == \A k \in DOMAIN thenCalls : Due(k) => Invoked(k)

\* C36: with a timer queue that runs every callback, for every then call whose receiver
\* is settled (the call made before or after the settlement) the handler that applies
\* to the receiver's outcome is eventually invoked: the drain loses no entry.  The
\* history of then calls only grows and a settled receiver stays settled, so that
\* "every call that is due is eventually served" is "again and again, every call that
\* is due has been served".
C36_DrainLiveness == []<>AllServed

\* two then calls were queued on one pending receiver and the handlers of both have
\* been invoked
C36_Witness ==
    \E i, j \in DOMAIN thenCalls :
        /\ i < j
        /\ thenCalls[i].recv = thenCalls[j].recv
        /\ ~thenCalls[i].settled /\ ~thenCalls[j].settled
        /\ Invoked(i) /\ Invoked(j)

\* one then call was queued on a pending receiver, one was made after the receiver
\* settled, and the handlers of both have been invoked
C36_WitnessAfter ==
    \E i, j \in DOMAIN thenCalls :
        /\ thenCalls[i].recv = thenCalls[j].recv
        /\ ~thenCalls[i].settled /\ thenCalls[j].settled
        /\ Invoked(i) /\ Invoked(j)
\* the Observer Queue of cell o in the collection ob, or none when the cell has none
QueueOf(ob, o) == IF o \in DOMAIN ob THEN <<ob[o]>> ELSE << >>

\* the resolveFn or rejectFn call the driver makes in the step, if it makes one: the
\* cell called and, for resolveFn called with a cell, that cell (0 otherwise)
DriverCalls ==
    {[cell |-> a.cell, inner |-> a.inner] : a \in driver'.adopted \ driver.adopted}
        \cup (IF Len(driver'.order) > Len(driver.order)
              THEN {[cell |-> driver'.order[Len(driver'.order)], inner |-> 0]}
              ELSE {})

\* C40: a step in which resolveFn or rejectFn of a cell is called leaves the State and
\* the Observer Queue of every other existing cell unchanged.
C40_Frame ==
    [][\A call \in DriverCalls :
           \A o \in DOMAIN instancesStatesMap \ {call.cell} :
               /\ instancesStatesMap'[o] = instancesStatesMap[o]
               /\ QueueOf(instancesObservers', o) = QueueOf(instancesObservers, o)]_vars

\* C40, amended: a step in which resolveFn or rejectFn of a pending cell is called
\* leaves the State of every other existing cell unchanged, and the Observer Queue of
\* every other existing cell too, but for a pending cell given to resolveFn as the
\* value: its queue gains one entry at the end, the two callbacks of the adoption,
\* registered for a cell made in the step.
C40_FrameButRegistration ==
    [][\A call \in DriverCalls :
           \A o \in DOMAIN instancesStatesMap \ {call.cell} :
               /\ instancesStatesMap'[o] = instancesStatesMap[o]
               /\ IF o = call.inner /\ ~instancesStatesMap[o].settled
                  THEN \E n \in DOMAIN instancesStatesMap' \ DOMAIN instancesStatesMap :
                           /\ o \in DOMAIN instancesObservers'
                           /\ instancesObservers'[o] =
                                  Append(instancesObservers[o],
                                         [cell |-> n, onfulfill |-> AdoptResolve(call.cell),
                                          onreject |-> AdoptReject(call.cell)])
                  ELSE QueueOf(instancesObservers', o) = QueueOf(instancesObservers, o)]_vars

\* a pending cell was resolved with a pending cell, whose queue holds the callbacks of
\* the adoption
C40_Witness ==
    \E a \in driver.adopted :
        /\ ~instancesStatesMap[a.cell].settled
        /\ a.inner \in DOMAIN instancesObservers
        /\ \E i \in DOMAIN instancesObservers[a.inner] :
               instancesObservers[a.inner][i].onfulfill = AdoptResolve(a.cell)
\* C31: once the aggregate cell is settled with its array as payload (Fulfilled by all
\* or allSettled, Rejected by any), no later step changes the array: it keeps its
\* indexes and its elements.
C31_PayloadFrozen ==
    [][(Aggregate.settled /\ Aggregate.value = ArrayRef(driver.agg.cell))
           => arrays'[driver.agg.cell] = arrays[driver.agg.cell]]_vars

====
